---- MODULE Spec2Model ----
(***************************************************************************)
(* Three-way merge of generated component files (@plasmicapp/code-merger). *)
(*                                                                         *)
(* Raw syntax nodes are records with a field t (the babel node type).      *)
(* Classified nodes (PlasmicASTNode) are records with a field type.        *)
(* Member and attribute names are sequences of name segments, so that      *)
(* `cls${id}` is <<"cls">> \o <<id>> and name.startsWith("on") is a test   *)
(* of the first segment.                                                   *)
(***************************************************************************)
EXTENDS Integers, Sequences, FiniteSets, TLC

VARIABLES
    newVersion,      \* CodeVersion of the new file
    editedVersion,   \* CodeVersion of the edited file
    baseVersion,     \* CodeVersion of the base file
    newJsx,          \* result of serializePlasmicASTNode(newVersion.root, ...)
    mergePc,         \* "start" | "done" | "idle"
    allImports,      \* import merge: [edited, new] lists of managed imports
    mergedImports,   \* import merge: the merged declarations
    importPc,        \* "start" | "done" | "idle"
    rawProvider,     \* the base provider: (projectId, revision) -> metadata model
    cache,           \* makeCachedProjectSyncDataProvider: its cache array
    rawCalls,        \* calls made to the raw provider, in order
    answered,        \* the answers of the cached provider, in order
    componentByUuid, \* mergeFiles: the input map
    projectId,       \* mergeFiles: the projectId argument
    updateable,      \* mergeFiles: updateableByComponentUuid, in insertion order
    mergedFiles,     \* mergeFiles: the result map, or the undefined / unset marker
    providerCalls,   \* mergeFiles: calls issued to projectSyncDataProvider
    cursor,          \* mergeFiles: position in updateable of the component being merged
    filesPc,         \* mergeFiles: "start" | "await" | "done" | "failed" | "idle"
    runs,            \* results of the settled mergeFiles calls on the same input
    parsedInputs,    \* mergeFiles: parsedNew and parsedBase of the latest iteration
    configFile,      \* plasmic-cli: the components of plasmic.json on disk
    opts,            \* plasmic-cli: the SyncArgs of the command line
    api,             \* plasmic-cli: api.projectComponents, projectId -> bundles
    syncs,           \* plasmic-cli: the runs of syncProjects, in the order they started
    written,         \* plasmic-cli: the component files written, in order
    watching,        \* plasmic-cli: watchProjects, "idle" | "start" | "subscribed" | "exit"
    matchArgs,       \* findMatch: its arguments nodes, start and n
    matchResult,     \* findMatch: the MatchResult it returned
    mergedArray,     \* mergedChildren: its array merged; entries are [src, node]
    nextInsertStartAt, \* mergedChildren: the insertion cursor
    editedIdx        \* mergedChildren: index i of the next editedChildren.forEach call

treeVars == <<newVersion, editedVersion, baseVersion, newJsx, mergePc>>
importVars == <<allImports, mergedImports, importPc>>
cacheVars == <<rawProvider, cache, rawCalls, answered>>
filesVars ==
    <<componentByUuid, projectId, updateable, mergedFiles, providerCalls, cursor, filesPc,
      runs, parsedInputs>>
cliVars == <<configFile, opts, api, syncs, written, watching>>
matchVars == <<matchArgs, matchResult>>
childVars == <<mergedArray, nextInsertStartAt, editedIdx>>
vars == <<treeVars, importVars, cacheVars, filesVars, cliVars, matchVars, childVars>>

-----------------------------------------------------------------------------
(* Syntax helpers (plasmic-ast / plasmic-parser / utils).                   *)

Undefined == [t |-> "undefined"]

helperObject == "rh"

Identifier(name) == [t |-> "Identifier", name |-> name]

StringLiteral(v) == [t |-> "StringLiteral", value |-> v]

makeMemberExpression(object, member) ==
    [t |-> "MemberExpression", object |-> object, property |-> member]

makeCallExpression(object, member) ==
    [t |-> "CallExpression", callee |-> makeMemberExpression(object, member),
     arguments |-> <<>>]

memberExpressionMatch(n, object, member) ==
    /\ n.t = "MemberExpression"
    /\ n.object = object
    /\ n.property = member

calleeMatch(callee, object, member) == memberExpressionMatch(callee, object, member)

jsxExpressionContainer(e) == [t |-> "JSXExpressionContainer", expression |-> e]

wrapInJsxExprContainer(e) == jsxExpressionContainer(e)

jsxAttribute(name, value) == [t |-> "JSXAttribute", name |-> name, value |-> value]

jsxSpreadAttribute(arg) == [t |-> "JSXSpreadAttribute", argument |-> arg]

logicalExpression(left, right) ==
    [t |-> "LogicalExpression", operator |-> "&&", left |-> left, right |-> right]

nodesDeepEqualIgnoreComments(a, b) == a = b

startsWithOn(name) == Len(name) > 0 /\ name[1] = "on"

clsName(id) == <<"cls">> \o <<id>>
propsName(id) == <<"props">> \o <<id>>
showName(id) == <<"show">> \o <<id>>
onName(id, eventNameInId) == <<"on">> \o <<id>> \o eventNameInId

SetMax(S) == IF S = {} THEN 0 ELSE CHOOSE x \in S : \A y \in S : y <= x

\* the subtrees of a raw node, in source order
astChildren(n) ==
    CASE n.t = "CallExpression" -> <<n.callee>> \o n.arguments
      [] n.t = "LogicalExpression" -> <<n.left, n.right>>
      [] n.t = "JSXExpressionContainer" -> <<n.expression>>
      [] n.t = "JSXElement" -> n.attributes \o n.children
      [] n.t = "JSXAttribute" -> <<n.value>>
      [] n.t = "JSXSpreadAttribute" -> <<n.argument>>
      [] n.t = "ArgRef" -> n.nodes
      [] OTHER -> <<>>

\* the rh.<member> names referenced anywhere in a raw subtree
RECURSIVE helperRefs(_)
helperRefs(n) ==
    IF n.t = "MemberExpression"
    THEN IF n.object = helperObject THEN {n.property} ELSE {}
    ELSE UNION {helperRefs(astChildren(n)[i]) : i \in 1..Len(astChildren(n))}

-----------------------------------------------------------------------------
(* CodeVersion (plasmic-parser): the classified tree and its indexes.       *)
(* A tag-or-component node is                                               *)
(*   [type, nameInId, name, attributes, children, guards, html]             *)
(* where attributes are the raw attributes of its JSX element, children are *)
(* classified nodes, and rawNode is guards[1] && ... && <element>, inside a *)
(* JSXExpressionContainer when html is TRUE; with no guard the raw node is  *)
(* the element itself.                                                      *)

RECURSIVE tagOrComponents(_)
tagOrComponents(n) ==
    CASE n.type = "tag-or-component" ->
            {n} \cup UNION {tagOrComponents(n.children[i]) : i \in 1..Len(n.children)}
      [] n.type = "arg" ->
            UNION {tagOrComponents(n.jsxNodes[i]) : i \in 1..Len(n.jsxNodes)}
      [] OTHER -> {}

getUuid(version, nameInId) ==
    IF nameInId \in DOMAIN version.nameInIdToUuid
    THEN version.nameInIdToUuid[nameInId]
    ELSE "undefined"

getId(version, node) ==
    [nameInId |-> node.nameInId, uuid |-> getUuid(version, node.nameInId)]

findNode(version, id) ==
    LET all == tagOrComponents(version.root)
        byName == {n \in all : n.nameInId = id.nameInId}
        byUuid == {n \in all : getUuid(version, n.nameInId) = id.uuid}
    IN  IF byName # {} THEN CHOOSE n \in byName : TRUE
        ELSE IF byUuid # {} /\ id.uuid # "undefined" THEN CHOOSE n \in byUuid : TRUE
        ELSE Undefined

RECURSIVE containsCall(_, _)
containsCall(n, member) ==
    \/ n.t = "CallExpression" /\ calleeMatch(n.callee, helperObject, member)
    \/ \E i \in 1..Len(astChildren(n)) : containsCall(astChildren(n)[i], member)

hasClassNameIdAttr(node) ==
    \E i \in 1..Len(node.attributes) :
        /\ node.attributes[i].t = "JSXAttribute"
        /\ node.attributes[i].name = <<"className">>
        /\ containsCall(node.attributes[i].value, clsName(node.nameInId))

hasPropsIdSpreador(node) ==
    \E i \in 1..Len(node.attributes) :
        /\ node.attributes[i].t = "JSXSpreadAttribute"
        /\ node.attributes[i].argument.t = "CallExpression"
        /\ calleeMatch(node.attributes[i].argument.callee, helperObject,
                       propsName(node.nameInId))

hasShowFuncCall(node) ==
    \E i \in 1..Len(node.guards) : containsCall(node.guards[i], showName(node.nameInId))

\* jsxElement.attrs: the classified value of a named attribute; attribute
\* values hold no managed markup here, so every value classifies as opaque
findAttrValueNode(name, node) ==
    LET idx == {i \in 1..Len(node.attributes) :
                   node.attributes[i].t = "JSXAttribute" /\ node.attributes[i].name = name}
    IN  IF idx = {} THEN Undefined
        ELSE [type |-> "opaque",
              rawNode |-> node.attributes[CHOOSE i \in idx : \A j \in idx : i <= j].value]

-----------------------------------------------------------------------------
(* mergeAttributes                                                          *)

\* keys of the Map built by getNamedAttrs, in insertion order
RECURSIVE namedAttrNames(_, _, _)
namedAttrNames(attributes, i, acc) ==
    IF i > Len(attributes) THEN acc
    ELSE IF /\ attributes[i].t = "JSXAttribute"
            /\ ~\E j \in 1..Len(acc) : acc[j] = attributes[i].name
         THEN namedAttrNames(attributes, i + 1, Append(acc, attributes[i].name))
         ELSE namedAttrNames(attributes, i + 1, acc)

\* Map.get on the Map built by getNamedAttrs: the last attribute set wins
getNamedAttrs(attributes, name) ==
    LET idx == {i \in 1..Len(attributes) :
                   attributes[i].t = "JSXAttribute" /\ attributes[i].name = name}
    IN  IF idx = {} THEN Undefined ELSE attributes[SetMax(idx)]

\* conflictResolution treating event handlers as any other attribute
conflictResolution_noEventHandlers(name, baseAttr, editedAttr, newAttr) ==
    IF nodesDeepEqualIgnoreComments(editedAttr, newAttr) THEN "emit-edited"
    ELSE IF baseAttr = Undefined THEN "emit-both"
    ELSE IF nodesDeepEqualIgnoreComments(baseAttr, editedAttr) THEN "emit-new"
    ELSE IF nodesDeepEqualIgnoreComments(baseAttr, newAttr) THEN "emit-edited"
    ELSE "emit-both"

conflictResolution(name, baseAttr, editedAttr, newAttr) ==
    IF nodesDeepEqualIgnoreComments(editedAttr, newAttr) THEN "emit-edited"
    ELSE IF baseAttr = Undefined THEN "emit-both"
    ELSE IF nodesDeepEqualIgnoreComments(baseAttr, editedAttr) THEN "emit-new"
    ELSE IF startsWithOn(name) \/ nodesDeepEqualIgnoreComments(baseAttr, newAttr)
         THEN "emit-edited"
    ELSE "emit-both"

RECURSIVE serializePlasmicASTNode(_, _, _, _)
RECURSIVE serializeNonOpaquePlasmicASTNode(_, _, _, _)
RECURSIVE serializeTagOrComponent(_, _, _, _)
RECURSIVE mergedChildren(_, _, _, _, _, _)

\* what one entry of newNamedAttrs contributes in newAttrsBeforeIdNode
newAttrsForName(name, newNode, editedNode, baseNode, nv, ev, bv) ==
    LET attr == getNamedAttrs(newNode.attributes, name)
        editedAttr == getNamedAttrs(editedNode.attributes, name)
        baseAttr == getNamedAttrs(baseNode.attributes, name)
    IN  IF name = <<"className">> THEN <<>>
        ELSE IF editedAttr # Undefined
             THEN IF conflictResolution(name, baseAttr, editedAttr, attr)
                        \in {"emit-both", "emit-new"}
                  THEN <<attr>> ELSE <<>>
        ELSE IF baseAttr = Undefined
             THEN <<jsxAttribute(attr.name,
                       serializePlasmicASTNode(findAttrValueNode(name, newNode),
                                               nv, ev, bv))>>
        ELSE <<>>

RECURSIVE newAttrsBeforeIdNode(_, _, _, _, _, _, _)
newAttrsBeforeIdNode(names, newNode, editedNode, baseNode, nv, ev, bv) ==
    IF names = <<>> THEN <<>>
    ELSE newAttrsForName(Head(names), newNode, editedNode, baseNode, nv, ev, bv)
         \o newAttrsBeforeIdNode(Tail(names), newNode, editedNode, baseNode, nv, ev, bv)

\* cloneDeepWithHook(editedAttr, hook) with the hook of emitAttrInEditedNode
RECURSIVE renameMember(_, _, _)
renameMember(n, from, to) ==
    CASE n.t = "MemberExpression" ->
            IF memberExpressionMatch(n, helperObject, from)
            THEN makeMemberExpression(helperObject, to) ELSE n
      [] n.t = "CallExpression" ->
            [n EXCEPT !.callee = renameMember(n.callee, from, to),
                      !.arguments = [i \in 1..Len(n.arguments) |->
                                        renameMember(n.arguments[i], from, to)]]
      [] n.t = "LogicalExpression" ->
            [n EXCEPT !.left = renameMember(n.left, from, to),
                      !.right = renameMember(n.right, from, to)]
      [] n.t = "JSXExpressionContainer" ->
            [n EXCEPT !.expression = renameMember(n.expression, from, to)]
      [] n.t = "JSXAttribute" ->
            [n EXCEPT !.value = renameMember(n.value, from, to)]
      [] n.t = "JSXSpreadAttribute" ->
            [n EXCEPT !.argument = renameMember(n.argument, from, to)]
      [] OTHER -> n

\* emitAttrInEditedNode emitting the edited attribute as it is
emitAttrInEditedNode_noRename(name, editedAttr, newNode, editedNode, baseNode) ==
    LET newAttr == getNamedAttrs(newNode.attributes, name)
        baseAttr == getNamedAttrs(baseNode.attributes, name)
    IN  IF newAttr # Undefined
        THEN IF conflictResolution(name, baseAttr, editedAttr, newAttr)
                    \notin {"emit-both", "emit-edited"}
             THEN Undefined
             ELSE editedAttr
        ELSE IF baseAttr = Undefined THEN editedAttr
        ELSE Undefined

\* emitAttrInEditedNode keeping an attribute the new version deleted when the
\* developer modified it
emitAttrInEditedNode_keepModified(name, editedAttr, newNode, editedNode, baseNode) ==
    LET newAttr == getNamedAttrs(newNode.attributes, name)
        baseAttr == getNamedAttrs(baseNode.attributes, name)
    IN  IF newAttr # Undefined
        THEN IF conflictResolution(name, baseAttr, editedAttr, newAttr)
                    \notin {"emit-both", "emit-edited"}
             THEN Undefined
             ELSE editedAttr
        ELSE IF baseAttr = Undefined THEN editedAttr
        ELSE IF nodesDeepEqualIgnoreComments(baseAttr, editedAttr) THEN Undefined
        ELSE editedAttr

emitAttrInEditedNode(name, editedAttr, newNode, editedNode, baseNode) ==
    LET newAttr == getNamedAttrs(newNode.attributes, name)
        baseAttr == getNamedAttrs(baseNode.attributes, name)
        editedNodeId == editedNode.nameInId
        newNodeId == newNode.nameInId
    IN  IF newAttr # Undefined
        THEN IF conflictResolution(name, baseAttr, editedAttr, newAttr)
                    \notin {"emit-both", "emit-edited"}
             THEN Undefined
             ELSE IF startsWithOn(name) /\ editedNodeId # newNodeId
                  THEN renameMember(editedAttr, onName(editedNodeId, Tail(name)),
                                    onName(newNodeId, Tail(name)))
                  ELSE editedAttr
        ELSE IF baseAttr = Undefined THEN editedAttr
        ELSE Undefined

\* the loop's iteration downgrading a spread to className whatever its arguments
mergedAttrsForEdited_alwaysDowngrade(attrInEditedNode, newNode, editedNode, baseNode) ==
    LET editedNodeId == editedNode.nameInId
        newNodeId == newNode.nameInId
        newNodeHasPropsWithIdSpreador == hasPropsIdSpreador(newNode)
        clsAttr == jsxAttribute(<<"className">>,
                       jsxExpressionContainer(
                           makeCallExpression(helperObject, clsName(newNodeId))))
    IN  IF attrInEditedNode.t = "JSXSpreadAttribute"
        THEN LET arg == attrInEditedNode.argument IN
             IF /\ arg.t = "CallExpression"
                /\ calleeMatch(arg.callee, helperObject, propsName(editedNodeId))
             THEN IF newNodeHasPropsWithIdSpreador
                  THEN <<[attrInEditedNode EXCEPT
                            !.argument.callee.property = propsName(newNodeId)]>>
                  ELSE <<clsAttr>>
             ELSE <<attrInEditedNode>>
        ELSE IF /\ attrInEditedNode.name = <<"className">>
                /\ attrInEditedNode.value.t = "JSXExpressionContainer"
                /\ attrInEditedNode.value.expression.t = "CallExpression"
                /\ calleeMatch(attrInEditedNode.value.expression.callee, helperObject,
                               clsName(editedNodeId))
             THEN IF newNodeHasPropsWithIdSpreador
                  THEN <<jsxSpreadAttribute(
                            makeCallExpression(helperObject, propsName(newNodeId)))>>
                  ELSE <<clsAttr>>
        ELSE LET toEmit == emitAttrInEditedNode(attrInEditedNode.name, attrInEditedNode,
                                                newNode, editedNode, baseNode)
             IN  IF toEmit # Undefined THEN <<toEmit>> ELSE <<>>

\* one iteration of the loop over the edited element's attributes
mergedAttrsForEdited(attrInEditedNode, newNode, editedNode, baseNode) ==
    LET editedNodeId == editedNode.nameInId
        newNodeId == newNode.nameInId
        newNodeHasPropsWithIdSpreador == hasPropsIdSpreador(newNode)
        clsAttr == jsxAttribute(<<"className">>,
                       jsxExpressionContainer(
                           makeCallExpression(helperObject, clsName(newNodeId))))
    IN  IF attrInEditedNode.t = "JSXSpreadAttribute"
        THEN LET arg == attrInEditedNode.argument IN
             IF /\ arg.t = "CallExpression"
                /\ calleeMatch(arg.callee, helperObject, propsName(editedNodeId))
             THEN IF newNodeHasPropsWithIdSpreador
                  THEN <<[attrInEditedNode EXCEPT
                            !.argument.callee.property = propsName(newNodeId)]>>
                  ELSE IF Len(arg.arguments) = 0 THEN <<clsAttr>>
                       ELSE <<clsAttr, attrInEditedNode>>
             ELSE <<attrInEditedNode>>
        ELSE IF /\ attrInEditedNode.name = <<"className">>
                /\ attrInEditedNode.value.t = "JSXExpressionContainer"
                /\ attrInEditedNode.value.expression.t = "CallExpression"
                /\ calleeMatch(attrInEditedNode.value.expression.callee, helperObject,
                               clsName(editedNodeId))
             THEN IF newNodeHasPropsWithIdSpreador
                  THEN <<jsxSpreadAttribute(
                            makeCallExpression(helperObject, propsName(newNodeId)))>>
                  ELSE <<clsAttr>>
        ELSE LET toEmit == emitAttrInEditedNode(attrInEditedNode.name, attrInEditedNode,
                                                newNode, editedNode, baseNode)
             IN  IF toEmit # Undefined THEN <<toEmit>> ELSE <<>>

RECURSIVE mergedAttrsFromEdited(_, _, _, _)
mergedAttrsFromEdited(attributes, newNode, editedNode, baseNode) ==
    IF attributes = <<>> THEN <<>>
    ELSE mergedAttrsForEdited(Head(attributes), newNode, editedNode, baseNode)
         \o mergedAttrsFromEdited(Tail(attributes), newNode, editedNode, baseNode)

mergeAttributes(newNode, editedNode, baseNode, nv, ev, bv) ==
    newAttrsBeforeIdNode(namedAttrNames(newNode.attributes, 1, <<>>),
                         newNode, editedNode, baseNode, nv, ev, bv)
    \o mergedAttrsFromEdited(editedNode.attributes, newNode, editedNode, baseNode)

-----------------------------------------------------------------------------
(* findMatch                                                                *)

SetMin(S) == CHOOSE x \in S : \A y \in S : x <= y

isTextual(n) == n.type = "text" \/ n.type = "string-lit"

\* indexes are 0-based as in the source; nodes[i + 1] is the source's nodes[i]
\* the idMatchChecker the callers of findMatch pass: the names are the same, or
\* they have the same uuid in the version of nodes and in the edited version
idMatchChecker(nodesVersion, editedVersionOfN, idInNodes, idInN) ==
    \/ idInNodes = idInN
    \/ getUuid(editedVersionOfN, idInN) = getUuid(nodesVersion, idInNodes)

findMatch(nodes, start, nodesVersion, editedVersionOfN, n) ==
    LET range == start..(Len(nodes) - 1)
        perfect ==
            CASE isTextual(n) ->
                    {i \in range : isTextual(nodes[i + 1]) /\ nodes[i + 1].value = n.value}
              [] n.type = "arg" ->
                    {i \in range : nodes[i + 1].type = "arg"
                                      /\ nodes[i + 1].argName = n.argName}
              [] n.type = "cond-str-call" ->
                    {i \in range : nodes[i + 1].type = "cond-str-call"}
              [] n.type = "tag-or-component" ->
                    {i \in range : nodes[i + 1].type = "tag-or-component"
                                      /\ idMatchChecker(nodesVersion, editedVersionOfN,
                                                        nodes[i + 1].nameInId, n.nameInId)}
              [] OTHER -> {}
        \* where matchingTypeAt may be set while the loop finds no perfect match
        sameType ==
            CASE isTextual(n) -> {i \in range : isTextual(nodes[i + 1])}
              [] n.type = "arg" -> {i \in range : nodes[i + 1].type = "arg"}
              [] n.type = "cond-str-call" -> range
              [] n.type = "tag-or-component" -> range
              [] OTHER -> {}
    IN  IF perfect # {} THEN [type |-> "perfect", index |-> SetMin(perfect)]
        ELSE IF sameType # {} THEN [type |-> "type", index |-> SetMin(sameType)]
        ELSE [type |-> "none", index |-> -1]

-----------------------------------------------------------------------------
(* rawNode of a classified node                                             *)

isExpression(n) ==
    n.t \notin {"JSXExpressionContainer", "JSXText", "JSXAttribute",
                "JSXSpreadAttribute", "undefined"}

RECURSIVE andChain(_, _)
andChain(guards, inner) ==
    IF guards = <<>> THEN inner
    ELSE logicalExpression(Head(guards), andChain(Tail(guards), inner))

\* the raw node of a tag-or-component whose JSX element is el
wrapElement(node, el) ==
    IF node.guards = <<>> THEN el
    ELSE IF node.html THEN jsxExpressionContainer(andChain(node.guards, el))
    ELSE andChain(node.guards, el)

RECURSIVE rawNode(_)
jsxElementRawNode(node) ==
    [t |-> "JSXElement", name |-> node.name, attributes |-> node.attributes,
     children |-> [i \in 1..Len(node.children) |-> rawNode(node.children[i])],
     closingElement |-> node.closingElement]

rawNode(n) ==
    CASE n.type = "text" -> [t |-> "JSXText", value |-> n.value]
      [] n.type = "string-lit" -> jsxExpressionContainer(StringLiteral(n.value))
      [] n.type = "opaque" -> n.rawNode
      [] n.type = "cond-str-call" -> n.rawNode
      [] n.type = "arg" ->
            jsxExpressionContainer(
                [t |-> "ArgRef", argName |-> n.argName,
                 nodes |-> [i \in 1..Len(n.jsxNodes) |-> rawNode(n.jsxNodes[i])]])
      [] n.type = "tag-or-component" -> wrapElement(n, jsxElementRawNode(n))

-----------------------------------------------------------------------------
(* mergedChildren                                                           *)

InsertAt(seq, pos, x) ==
    LET p == IF pos > Len(seq) THEN Len(seq) ELSE pos
    IN  SubSeq(seq, 1, p) \o <<x>> \o SubSeq(seq, p + 1, Len(seq))

nodesOf(merged) == [i \in 1..Len(merged) |-> merged[i].node]

\* insertEditedNodeIntoNew without the anchor: the child goes to the cursor
insertEditedNodeIntoNew_atCursor(st, editedChild, prevEditedChild, nv, ev) ==
    [merged |-> InsertAt(st.merged, st.nextInsertStartAt,
                         [src |-> "edited", node |-> editedChild]),
     nextInsertStartAt |-> st.nextInsertStartAt + 1]

\* insertEditedNodeIntoNew taking every child for the first one
insertEditedNodeIntoNew_prepend(st, editedChild, prevEditedChild, nv, ev) ==
    [merged |-> InsertAt(st.merged, 0, [src |-> "edited", node |-> editedChild]),
     nextInsertStartAt |-> 1]

\* st = [merged, nextInsertStartAt]; entries of merged are [src, node], src
\* telling whether the object is one of newChildren
insertEditedNodeIntoNew(st, editedChild, prevEditedChild, nv, ev) ==
    LET entry == [src |-> "edited", node |-> editedChild] IN
    IF prevEditedChild = Undefined
    THEN [merged |-> InsertAt(st.merged, 0, entry), nextInsertStartAt |-> 1]
    ELSE LET prevMatch ==
                 findMatch(nodesOf(st.merged), st.nextInsertStartAt, nv, ev,
                           prevEditedChild)
         IN  IF prevMatch.type = "perfect" \/ prevMatch.type = "type"
             THEN [merged |-> InsertAt(st.merged, prevMatch.index + 1, entry),
                   nextInsertStartAt |-> prevMatch.index + 2]
             ELSE [merged |-> InsertAt(st.merged, st.nextInsertStartAt, entry),
                   nextInsertStartAt |-> st.nextInsertStartAt + 1]

\* one edited child, inserted whether or not the base has its text
mergeEditedChild_ignoreBase(st, editedChildren, i, baseNode, nv, ev, bv) ==
    LET editedChild == editedChildren[i]
        prev == IF i = 1 THEN Undefined ELSE editedChildren[i - 1]
    IN  IF isTextual(editedChild)
        THEN LET matchInNewVersion ==
                     findMatch(nodesOf(st.merged), st.nextInsertStartAt, nv, ev,
                               editedChild)
                 matchInBaseVersion ==
                     findMatch(baseNode.children, 0, bv, ev, editedChild)
             IN  IF matchInNewVersion.type = "perfect"
                 THEN [st EXCEPT !.nextInsertStartAt = matchInNewVersion.index + 1]
                 ELSE insertEditedNodeIntoNew(st, editedChild, prev, nv, ev)
        ELSE IF editedChild.type = "opaque"
             THEN insertEditedNodeIntoNew(st, editedChild, prev, nv, ev)
        ELSE st

\* the body of editedChildren.forEach for the child at (1-based) position i
mergeEditedChild(st, editedChildren, i, baseNode, nv, ev, bv) ==
    LET editedChild == editedChildren[i]
        prev == IF i = 1 THEN Undefined ELSE editedChildren[i - 1]
    IN  IF isTextual(editedChild)
        THEN LET matchInNewVersion ==
                     findMatch(nodesOf(st.merged), st.nextInsertStartAt, nv, ev,
                               editedChild)
                 matchInBaseVersion ==
                     findMatch(baseNode.children, 0, bv, ev, editedChild)
             IN  IF matchInNewVersion.type = "perfect"
                 THEN [st EXCEPT !.nextInsertStartAt = matchInNewVersion.index + 1]
                 ELSE IF matchInBaseVersion.type = "perfect" THEN st
                 ELSE insertEditedNodeIntoNew(st, editedChild, prev, nv, ev)
        ELSE IF editedChild.type = "opaque"
             THEN insertEditedNodeIntoNew(st, editedChild, prev, nv, ev)
        ELSE st

RECURSIVE mergeEditedChildren(_, _, _, _, _, _, _)
mergeEditedChildren(st, editedChildren, i, baseNode, nv, ev, bv) ==
    IF i > Len(editedChildren) THEN st
    ELSE mergeEditedChildren(
             mergeEditedChild(st, editedChildren, i, baseNode, nv, ev, bv),
             editedChildren, i + 1, baseNode, nv, ev, bv)

\* the merged list before the children are serialized
mergedList(newNode, editedNode, baseNode, nv, ev, bv) ==
    mergeEditedChildren(
        [merged |-> [i \in 1..Len(newNode.children) |->
                        [src |-> "new", node |-> newNode.children[i]]],
         nextInsertStartAt |-> 0],
        editedNode.children, 1, baseNode, nv, ev, bv)

\* merged.map(...) for one entry; <<>> stands for a dropped (nil) child
serializeMergedChild(c, nv, ev, bv) ==
    IF c.src # "new" THEN <<rawNode(c.node)>>
    ELSE IF c.node.type = "opaque" THEN <<rawNode(c.node)>>
    ELSE LET n == serializeNonOpaquePlasmicASTNode(c.node, nv, ev, bv) IN
         IF n = Undefined THEN <<>>
         ELSE IF isExpression(n)
              THEN IF n.t # "JSXElement" /\ n.t # "JSXFragment"
                   THEN <<jsxExpressionContainer(n)>> ELSE <<n>>
         ELSE <<n>>

RECURSIVE serializeMergedChildren(_, _, _, _)
serializeMergedChildren(merged, nv, ev, bv) ==
    IF merged = <<>> THEN <<>>
    ELSE serializeMergedChild(Head(merged), nv, ev, bv)
         \o serializeMergedChildren(Tail(merged), nv, ev, bv)

mergedChildren(newNode, editedNode, baseNode, nv, ev, bv) ==
    serializeMergedChildren(
        mergedList(newNode, editedNode, baseNode, nv, ev, bv).merged, nv, ev, bv)

-----------------------------------------------------------------------------
(* mergeShowFunc                                                            *)

makeJsxElementWithShowCall(jsxElement, nodeId) ==
    logicalExpression(makeCallExpression(helperObject, showName(nodeId)), jsxElement)

\* the first traverse of mergeShowFunc: every call rh.show<editedNodeId>() is
\* renamed or replaced by true, and is not descended into
RECURSIVE replaceShowCalls(_, _, _, _)
replaceShowCalls(n, editedNodeId, newNodeId, newNodeCallShowFunc) ==
    LET R(x) == replaceShowCalls(x, editedNodeId, newNodeId, newNodeCallShowFunc)
        RS(xs) == [i \in 1..Len(xs) |-> R(xs[i])]
    IN  CASE n.t = "CallExpression" ->
                IF calleeMatch(n.callee, helperObject, showName(editedNodeId))
                THEN IF newNodeCallShowFunc
                     THEN [n EXCEPT !.callee.property = showName(newNodeId)]
                     ELSE [t |-> "BooleanLiteral", value |-> TRUE]
                ELSE [n EXCEPT !.callee = R(n.callee), !.arguments = RS(n.arguments)]
          [] n.t = "LogicalExpression" -> [n EXCEPT !.left = R(n.left), !.right = R(n.right)]
          [] n.t = "JSXExpressionContainer" -> [n EXCEPT !.expression = R(n.expression)]
          [] n.t = "JSXElement" ->
                [n EXCEPT !.attributes = RS(n.attributes), !.children = RS(n.children)]
          [] n.t = "JSXAttribute" -> [n EXCEPT !.value = R(n.value)]
          [] n.t = "JSXSpreadAttribute" -> [n EXCEPT !.argument = R(n.argument)]
          [] n.t = "ArgRef" -> [n EXCEPT !.nodes = RS(n.nodes)]
          [] OTHER -> n

\* mergeShowFunc without its second part: a show call is never added
mergeShowFunc_neverAdds(newNode, editedNode, jsxElementClone) ==
    replaceShowCalls(wrapElement(editedNode, jsxElementClone), editedNode.nameInId,
                     newNode.nameInId, hasShowFuncCall(newNode))

\* editedNodeClone is wrapElement(editedNode, jsxElementClone)
mergeShowFunc(newNode, editedNode, jsxElementClone) ==
    LET editedNodeId == editedNode.nameInId
        newNodeId == newNode.nameInId
        newNodeCallShowFunc == hasShowFuncCall(newNode)
        editedNodeClone == wrapElement(editedNode, jsxElementClone)
        replacedShowCall == containsCall(editedNodeClone, showName(editedNodeId))
        replaced == replaceShowCalls(editedNodeClone, editedNodeId, newNodeId,
                                     newNodeCallShowFunc)
    IN  IF newNodeCallShowFunc /\ ~replacedShowCall
        THEN IF editedNode.guards = <<>>
             THEN makeJsxElementWithShowCall(editedNodeClone, newNodeId)
             ELSE wrapElement(editedNode,
                              makeJsxElementWithShowCall(jsxElementClone, newNodeId))
        ELSE replaced

-----------------------------------------------------------------------------
(* serializeTagOrComponent and the node serializers                         *)

serializeTagOrComponent(newNode, nv, ev, bv) ==
    LET nodeId == getId(nv, newNode)
        editedNode == findNode(ev, nodeId)
        baseNode == findNode(bv, nodeId)
    IN  IF editedNode # Undefined
        THEN LET children == mergedChildren(newNode, editedNode, baseNode, nv, ev, bv)
                 editedNodeJsxElementClone ==
                     [t |-> "JSXElement", name |-> editedNode.name,
                      attributes |-> mergeAttributes(newNode, editedNode, baseNode,
                                                     nv, ev, bv),
                      children |-> children,
                      closingElement |-> editedNode.closingElement \/ Len(children) > 0]
             IN  mergeShowFunc(newNode, editedNode, editedNodeJsxElementClone)
        ELSE IF baseNode # Undefined THEN Undefined
        ELSE rawNode(newNode)

\* serializeTagOrComponent of one node of an arg, with the null literal
\* standing in for a deleted node
serializeArgNode(n, nv, ev, bv) ==
    LET rawMerged == serializeTagOrComponent(n, nv, ev, bv) IN
    IF rawMerged # Undefined THEN rawMerged
    ELSE IF rawNode(n).t = "JSXExpressionContainer"
         THEN jsxExpressionContainer([t |-> "NullLiteral"])
         ELSE [t |-> "NullLiteral"]

serializeNonOpaquePlasmicASTNode(newNode, nv, ev, bv) ==
    CASE newNode.type = "arg" ->
            jsxExpressionContainer(
                [t |-> "ArgRef", argName |-> newNode.argName,
                 nodes |-> [i \in 1..Len(newNode.jsxNodes) |->
                               serializeArgNode(newNode.jsxNodes[i], nv, ev, bv)]])
      [] newNode.type = "cond-str-call" -> rawNode(newNode)
      [] newNode.type = "string-lit" -> rawNode(newNode)
      [] newNode.type = "text" -> rawNode(newNode)
      [] newNode.type = "tag-or-component" ->
            serializeTagOrComponent(newNode, nv, ev, bv)

serializePlasmicASTNode(newNode, nv, ev, bv) ==
    IF newNode.type = "opaque" THEN newNode.rawNode
    ELSE serializeNonOpaquePlasmicASTNode(newNode, nv, ev, bv)

\* whether an assertion fails while newNode is serialized: the asserts of
\* serializeTagOrComponent (base must hold what edited holds) and of
\* mergeAttributes (one managed shape; a new attribute value is a container)
RECURSIVE serializeThrows(_, _, _, _)
\* the assertion of serializeTagOrComponent failing for every node of the new
\* tree that edited holds and base lacks, wherever the node is
serializeThrows_everywhere(newNode, nv, ev, bv) ==
    \E x \in tagOrComponents(newNode) :
        /\ findNode(ev, getId(nv, x)) # Undefined
        /\ findNode(bv, getId(nv, x)) = Undefined

serializeThrows(newNode, nv, ev, bv) ==
    CASE newNode.type = "arg" ->
            \E i \in 1..Len(newNode.jsxNodes) :
                serializeThrows(newNode.jsxNodes[i], nv, ev, bv)
      [] newNode.type = "tag-or-component" ->
            LET editedNode == findNode(ev, getId(nv, newNode))
                baseNode == findNode(bv, getId(nv, newNode))
            IN  /\ editedNode # Undefined
                /\ \/ baseNode = Undefined
                   \/ hasPropsIdSpreador(newNode) = hasClassNameIdAttr(newNode)
                   \/ \E i \in 1..Len(newNode.attributes) :
                        LET a == newNode.attributes[i] IN
                        /\ a.t = "JSXAttribute"
                        /\ a.name # <<"className">>
                        /\ getNamedAttrs(editedNode.attributes, a.name) = Undefined
                        /\ getNamedAttrs(baseNode.attributes, a.name) = Undefined
                        /\ findAttrValueNode(a.name, newNode).rawNode.t
                              # "JSXExpressionContainer"
                   \/ \E i \in 1..Len(newNode.children) :
                        serializeThrows(newNode.children[i], nv, ev, bv)
      [] OTHER -> FALSE

Thrown == [t |-> "thrown"]

-----------------------------------------------------------------------------
(* Inputs of the markup merge                                               *)

MaxChildren == 3

TagNode(nameInId, attributes, children, guards) ==
    [type |-> "tag-or-component", nameInId |-> nameInId, name |-> "div",
     attributes |-> attributes, children |-> children, guards |-> guards,
     html |-> TRUE, closingElement |-> children # <<>>]

TextNode(v) == [type |-> "text", value |-> v]
StringLitNode(v) == [type |-> "string-lit", value |-> v]
OpaqueNode(code) == [type |-> "opaque", rawNode |-> jsxExpressionContainer(Identifier(code))]

clsAttr(id) ==
    jsxAttribute(<<"className">>,
                 jsxExpressionContainer(makeCallExpression(helperObject, clsName(id))))
propsAttr(id, args) ==
    jsxSpreadAttribute([t |-> "CallExpression",
                        callee |-> makeMemberExpression(helperObject, propsName(id)),
                        arguments |-> args])
showGuard(id) == makeCallExpression(helperObject, showName(id))

SeqsUpTo(S, n) == UNION {[1..k -> S] : k \in 0..n}

CodeVersion(root, nameInIdToUuid) == [root |-> root, nameInIdToUuid |-> nameInIdToUuid]

-----------------------------------------------------------------------------
(* The markup merge of mergeFiles: serializePlasmicASTNode on the new root  *)

Merge ==
    /\ mergePc = "start"
    /\ newJsx' = IF serializeThrows(newVersion.root, newVersion, editedVersion, baseVersion)
                 THEN Thrown
                 ELSE serializePlasmicASTNode(newVersion.root, newVersion,
                                              editedVersion, baseVersion)
    /\ mergePc' = "done"
    /\ UNCHANGED <<newVersion, editedVersion, baseVersion>>
    /\ UNCHANGED <<importVars, cacheVars, filesVars, cliVars, matchVars, childVars>>

IdleImports == allImports = <<>> /\ mergedImports = <<>> /\ importPc = "idle"
IdleCalls == cache = <<>> /\ rawCalls = <<>> /\ answered = <<>>
IdleCache == rawProvider = <<>> /\ IdleCalls
IdleFiles ==
    /\ componentByUuid = <<>> /\ projectId = "" /\ updateable = <<>> /\ mergedFiles = <<>>
    /\ providerCalls = <<>> /\ cursor = 0 /\ filesPc = "idle" /\ runs = <<>>
    /\ parsedInputs = Undefined
IdleCli ==
    /\ configFile = <<>> /\ opts = Undefined /\ api = <<>> /\ syncs = <<>>
    /\ written = <<>> /\ watching = "idle"
IdleMatch == matchArgs = Undefined /\ matchResult = Undefined
IdleChildren == mergedArray = <<>> /\ nextInsertStartAt = 0 /\ editedIdx = 0
IdleTree ==
    /\ newVersion = <<>> /\ editedVersion = <<>> /\ baseVersion = <<>>
    /\ newJsx = <<>> /\ mergePc = "idle"

-----------------------------------------------------------------------------
(* Input families                                                           *)

MaxExtraAttrs == 2

titleAttr(v) == jsxAttribute(<<"title">>, jsxExpressionContainer(StringLiteral(v)))
onClickAttr(id) ==
    jsxAttribute(<<"on", "Click">>,
                 jsxExpressionContainer(
                     makeMemberExpression(helperObject, onName(id, <<"Click">>))))
devSpread == jsxSpreadAttribute(Identifier("rest"))

\* the attribute lists of a legal node: one managed identity attribute (shape
\* A or shape B) among up to MaxExtraAttrs other attributes
ExtraAttrs(id) == {titleAttr("a"), titleAttr("b"), onClickAttr(id), devSpread}
IdAttrs(id) == {clsAttr(id), propsAttr(id, <<>>)}
NodeAttrs(id) ==
    {InsertAt(extra, pos, idAttr) :
        extra \in SeqsUpTo(ExtraAttrs(id), MaxExtraAttrs),
        pos \in 0..MaxExtraAttrs,
        idAttr \in IdAttrs(id)}

LeafTags(id) ==
    {TagNode(id, <<clsAttr(id)>>, <<>>, g) : g \in {<<>>, <<showGuard(id)>>}}

ChildAlphabet ==
    {TextNode("x"), TextNode("y"), StringLitNode("x"), OpaqueNode("f"), OpaqueNode("g")}
    \cup LeafTags("A")

tagCount(children) ==
    Cardinality({i \in 1..Len(children) : children[i].type = "tag-or-component"})

ChildSeqs == {c \in SeqsUpTo(ChildAlphabet, MaxChildren) : tagCount(c) <= 1}

RootNode(attributes, children, guards) ==
    [TagNode("R", attributes, children, guards) EXCEPT !.html = FALSE]

LegalTrees ==
    {RootNode(a, c, g) :
        a \in NodeAttrs("R"), c \in ChildSeqs, g \in {<<>>, <<showGuard("R")>>}}

IdMap == [n \in {"R", "A", "P"} |-> CASE n = "R" -> "u0" [] n = "A" -> "u1" [] n = "P" -> "u2"]

InitVersions(n, e, b, nMap, ebMap) ==
    /\ newVersion = CodeVersion(n, nMap)
    /\ editedVersion = CodeVersion(e, ebMap)
    /\ baseVersion = CodeVersion(b, ebMap)
    /\ newJsx = <<>>
    /\ mergePc = "start"
    /\ IdleImports /\ IdleCache /\ IdleFiles /\ IdleCli /\ IdleMatch /\ IdleChildren

\* merge(new, new, new)
InitIdem == \E t \in LegalTrees : InitVersions(t, t, t, IdMap, IdMap)

SpecIdem == InitIdem /\ [][Merge]_vars

\* C1 (as claimed): merge(new, new, new) is new: the merged markup is the new
\* markup, with every attribute and child once and in new's order, also when
\* new holds opaque children, repeated text children or other attributes.
C1_Idempotence ==
    mergePc = "done" => newJsx = rawNode(newVersion.root)

-----------------------------------------------------------------------------
(* edited = base: the developer made no edits                               *)

MaxSmallChildren == 2

SmallAttrs(id) ==
    {<<clsAttr(id)>>, <<clsAttr(id), titleAttr("a")>>, <<titleAttr("a"), clsAttr(id)>>,
     <<clsAttr(id), titleAttr("b")>>, <<propsAttr(id, <<>>)>>,
     <<clsAttr(id), onClickAttr(id)>>}

SmallChildAlphabet ==
    {TextNode("x"), TextNode("y"), OpaqueNode("f"), TagNode("A", <<clsAttr("A")>>, <<>>, <<>>)}

SmallChildSeqs ==
    {c \in SeqsUpTo(SmallChildAlphabet, MaxSmallChildren) : tagCount(c) <= 1}

SmallTrees ==
    {RootNode(a, c, g) :
        a \in SmallAttrs("R"), c \in SmallChildSeqs, g \in {<<>>, <<showGuard("R")>>}}

InitNoEdits ==
    \E n \in SmallTrees, e \in SmallTrees : InitVersions(n, e, e, IdMap, IdMap)

SpecNoEdits == InitNoEdits /\ [][Merge]_vars

\* a raw tree with every closing tag materialized, to compare markup by
\* attributes and children only
RECURSIVE withClosing(_)
withClosing(n) ==
    CASE n.t = "JSXElement" ->
            [n EXCEPT !.closingElement = TRUE,
                      !.children = [i \in 1..Len(n.children) |-> withClosing(n.children[i])]]
      [] n.t = "LogicalExpression" -> [n EXCEPT !.right = withClosing(n.right)]
      [] n.t = "JSXExpressionContainer" -> [n EXCEPT !.expression = withClosing(n.expression)]
      [] OTHER -> n

\* C2 (as claimed): with edited = base the merged markup is new's markup: each
\* node of new with exactly new's attributes, in new's order, and exactly
\* new's children, in new's order.
C2_ToolPreserving ==
    (mergePc = "done" /\ editedVersion = baseVersion)
        => withClosing(newJsx) = withClosing(rawNode(newVersion.root))

-----------------------------------------------------------------------------
(* new = base: the tool made no changes; the developer edited               *)

RECURSIVE subtrees(_)
subtrees(n) == {n} \cup UNION {subtrees(astChildren(n)[i]) : i \in 1..Len(astChildren(n))}

Range(seq) == {seq[i] : i \in 1..Len(seq)}

\* the JSX elements of a raw tree that carry the managed identity of id
elementsOf(raw, id) ==
    {el \in subtrees(raw) :
        /\ el.t = "JSXElement"
        /\ \E a \in Range(el.attributes) :
              \/ a.t = "JSXAttribute" /\ containsCall(a, clsName(id))
              \/ a.t = "JSXSpreadAttribute" /\ containsCall(a, propsName(id))}

namesOf(version) == {n.nameInId : n \in tagOrComponents(version.root)}

nodeNamed(version, id) ==
    CHOOSE n \in tagOrComponents(version.root) : n.nameInId = id

cond == Identifier("cond")

\* the developer's version of node A: an added attribute, an added opaque
\* child and the developer's own condition around it
DevA == TagNode("A", <<clsAttr("A"), titleAttr("d")>>, <<OpaqueNode("f")>>, <<cond>>)
PlainA == TagNode("A", <<clsAttr("A")>>, <<>>, <<>>)
NodeP(children) == TagNode("P", <<clsAttr("P")>>, children, <<>>)

BaseChildSeqs ==
    {<<>>, <<TextNode("x")>>, <<PlainA>>, <<PlainA, TextNode("x")>>,
     <<NodeP(<<>>)>>, <<NodeP(<<PlainA>>)>>, <<TextNode("x"), NodeP(<<PlainA>>)>>}

BaseTrees ==
    {RootNode(<<clsAttr("R")>>, c, g) :
        c \in BaseChildSeqs, g \in {<<>>, <<showGuard("R")>>}}

DevChildAlphabet ==
    {TextNode("x"), TextNode("z"), OpaqueNode("f"), PlainA, DevA,
     NodeP(<<>>), NodeP(<<PlainA>>), NodeP(<<DevA>>)}

uniqueNames(root) ==
    \A id \in {"R", "A", "P"} :
        Cardinality({n \in tagOrComponents(root) : n.nameInId = id}) <= 1

DevTrees ==
    {t \in {RootNode(a, c, g) :
              a \in {<<clsAttr("R")>>, <<clsAttr("R"), titleAttr("a")>>,
                     <<clsAttr("R"), devSpread>>, <<onClickAttr("R"), clsAttr("R")>>},
              c \in SeqsUpTo(DevChildAlphabet, MaxSmallChildren),
              g \in {<<>>, <<cond>>, <<showGuard("R")>>, <<cond, showGuard("R")>>}} :
        uniqueNames(t)}

\* an edited tree the developer can have made from base b: its managed nodes
\* are nodes of b, and it calls rh.show<id>() only where b does
developerEdit(e, b) ==
    /\ {n.nameInId : n \in tagOrComponents(e)} \subseteq {n.nameInId : n \in tagOrComponents(b)}
    /\ hasShowFuncCall(e) => hasShowFuncCall(b)

InitDevEdits ==
    \E b \in BaseTrees, e \in DevTrees :
        /\ developerEdit(e, b)
        /\ InitVersions(b, e, b, IdMap, IdMap)

SpecDevEdits == InitDevEdits /\ [][Merge]_vars

\* what the developer added to edited node e over base node b
devAttrs(e, b) ==
    {a \in Range(e.attributes) :
        /\ a \notin Range(b.attributes)
        /\ a.t = "JSXAttribute" => getNamedAttrs(b.attributes, a.name) = Undefined}
devOpaqueChildren(e, b) ==
    {c \in Range(e.children) : c.type = "opaque" /\ c \notin Range(b.children)}
devGuards(e, b) == {g \in Range(e.guards) : g \notin Range(b.guards)}

\* element el of the output out holds them, unchanged
devAdditionsIn(e, b, el, out) ==
    /\ \A a \in devAttrs(e, b) : a \in Range(el.attributes)
    /\ \A c \in devOpaqueChildren(e, b) : rawNode(c) \in Range(el.children)
    /\ \A g \in devGuards(e, b) :
          \E w \in subtrees(out) :
              w.t = "LogicalExpression" /\ w.left = g /\ el \in subtrees(w.right)

devPreserved(e, b, out) ==
    \/ devAttrs(e, b) = {} /\ devOpaqueChildren(e, b) = {} /\ devGuards(e, b) = {}
    \/ /\ out \notin {Thrown, Undefined}
       /\ \E el \in elementsOf(out, e.nameInId) : devAdditionsIn(e, b, el, out)

\* C3 (as claimed): when new = base, every node of edited whose nameInId is
\* also in new has its developer-added opaque children, attributes and
\* visibility logic in the merged markup, unchanged.
C3_DeveloperPreserving ==
    (mergePc = "done" /\ newVersion = baseVersion)
        => \A e \in tagOrComponents(editedVersion.root) :
              e.nameInId \in namesOf(newVersion)
              => devPreserved(e, nodeNamed(baseVersion, e.nameInId), newJsx)

-----------------------------------------------------------------------------
(* Renames: the new version names the root R2 (same uuid)                   *)

\* className={cx(rh.cls<id>())}: a className the developer modified
clsModAttr(id) ==
    jsxAttribute(<<"className">>,
        jsxExpressionContainer(
            [t |-> "CallExpression", callee |-> Identifier("cx"),
             arguments |-> <<makeCallExpression(helperObject, clsName(id))>>]))
\* onKey={rh.on<id>Click}: an attribute the developer added, reusing a handler
onKeyAttr(id) ==
    jsxAttribute(<<"on", "Key">>,
                 jsxExpressionContainer(
                     makeMemberExpression(helperObject, onName(id, <<"Click">>))))
\* onClick={() => rh.on<id>Click()}: the handler attribute, modified
onClickModAttr(id) ==
    jsxAttribute(<<"on", "Click">>,
                 jsxExpressionContainer(
                     [t |-> "CallExpression",
                      callee |-> makeMemberExpression(helperObject, onName(id, <<"Click">>)),
                      arguments |-> <<Identifier("e")>>]))

GenAttrs(id) ==
    {<<clsAttr(id)>>, <<propsAttr(id, <<>>)>>, <<clsAttr(id), onClickAttr(id)>>}

RenEditedAttrs(id) ==
    GenAttrs(id)
    \cup {<<clsModAttr(id)>>, <<clsAttr(id), onKeyAttr(id)>>,
          <<propsAttr(id, <<Identifier("x")>>)>>, <<clsAttr(id), onClickModAttr(id)>>,
          <<clsAttr(id), titleAttr("a")>>}

GenTrees(id) ==
    {[TagNode(id, a, c, g) EXCEPT !.html = FALSE] :
        a \in GenAttrs(id), c \in {<<>>, <<PlainA>>, <<TextNode("x"), PlainA>>},
        g \in {<<>>, <<showGuard(id)>>}}

RenEditedTrees ==
    {RootNode(a, c, g) :
        a \in RenEditedAttrs("R"),
        c \in {<<>>, <<PlainA>>, <<OpaqueNode("f"), PlainA>>},
        g \in {<<>>, <<showGuard("R")>>, <<cond, showGuard("R")>>, <<cond>>}}

RenamedMap ==
    [n \in {"R2", "A"} |-> IF n = "R2" THEN "u0" ELSE "u1"]

InitRename ==
    \E n \in GenTrees("R2"), e \in RenEditedTrees, b \in GenTrees("R") :
        /\ developerEdit(e, b)
        /\ InitVersions(n, e, b, RenamedMap, IdMap)

SpecRename == InitRename /\ [][Merge]_vars

\* the JSX element of a node's raw node, and the guards around it
RECURSIVE innerElement(_)
innerElement(raw) ==
    CASE raw.t = "JSXExpressionContainer" -> innerElement(raw.expression)
      [] raw.t = "LogicalExpression" -> innerElement(raw.right)
      [] OTHER -> raw

RECURSIVE outerGuards(_)
outerGuards(raw) ==
    CASE raw.t = "JSXExpressionContainer" -> outerGuards(raw.expression)
      [] raw.t = "LogicalExpression" -> <<raw.left>> \o outerGuards(raw.right)
      [] OTHER -> <<>>

\* the helper members a node's own output references: in its guards and in
\* the attributes of its element
ownRefs(raw) ==
    UNION {helperRefs(g) : g \in Range(outerGuards(raw))}
    \cup UNION {helperRefs(a) : a \in Range(innerElement(raw).attributes)}

\* rh.cls<x>, rh.props<x>, rh.show<x>, rh.on<x><Event>
namedAfter(ref, x) ==
    \/ ref \in {clsName(x), propsName(x), showName(x)}
    \/ Len(ref) >= 2 /\ ref[1] = "on" /\ ref[2] = x

rootRenamed ==
    /\ newVersion.root.nameInId # editedVersion.root.nameInId
    /\ getUuid(newVersion, newVersion.root.nameInId)
          = getUuid(editedVersion, editedVersion.root.nameInId)

isManagedIdAttr(a, id) ==
    \/ /\ a.t = "JSXSpreadAttribute"
       /\ a.argument.t = "CallExpression"
       /\ calleeMatch(a.argument.callee, helperObject, propsName(id))
    \/ /\ a.t = "JSXAttribute"
       /\ a.name = <<"className">>
       /\ a.value.t = "JSXExpressionContainer"
       /\ a.value.expression.t = "CallExpression"
       /\ calleeMatch(a.value.expression.callee, helperObject, clsName(id))

\* an attribute of the output may still name x only if it is an edited
\* attribute emitted as it was: not the managed identity attribute (but for a
\* spread with arguments kept beside the new className), and not through
\* rh.on<x><Event> in an on<Event> attribute that new carries too
keepsOldName(a, ref, x, newNode, editedNode) ==
    /\ a \in Range(editedNode.attributes)
    /\ isManagedIdAttr(a, x)
          => /\ a.t = "JSXSpreadAttribute"
             /\ Len(a.argument.arguments) > 0
             /\ hasClassNameIdAttr(newNode)
    /\ (a.t = "JSXAttribute" /\ startsWithOn(a.name)
          /\ getNamedAttrs(newNode.attributes, a.name) # Undefined)
          => ref # onName(x, Tail(a.name))

-----------------------------------------------------------------------------
(* Import merge                                                             *)
(* A statement of a file body is [t |-> "ImportDeclaration", specifiers,    *)
(* source, leadingComments, trailingComments] or [t |-> "Statement", code]. *)
(* A comment is the sequence of its tokens: <<"plasmic-import:", id>>, or   *)
(* with "/", type. The leadingComments of an import are Undefined (the      *)
(* parser attached none), Null, or Comments(list).                          *)

Null == [t |-> "null"]
Comments(list) == [t |-> "comments", list |-> list]

ImportTypes == {"component", "css", "render", "globalVariant", "projectcss", "defaultcss"}

\* JavaScript's < on the strings used as ids and types (code unit order)
StrRank(str) ==
    CASE str = "a" -> 1 [] str = "b" -> 2 [] str = "c" -> 3
      [] str = "component" -> 4 [] str = "css" -> 5 [] str = "defaultcss" -> 6
      [] str = "globalVariant" -> 7 [] str = "projectcss" -> 8 [] str = "render" -> 9
StrLess(x, y) == StrRank(x) < StrRank(y)

tryParsePlasmicImportSpec(node) ==
    IF node.trailingComments = <<>> THEN Undefined
    ELSE LET c == node.trailingComments[1] IN
         IF Len(c) >= 2 /\ c[1] = "plasmic-import:"
         THEN [t |-> "spec", id |-> c[2],
               type |-> IF Len(c) >= 4 /\ c[3] = "/" /\ c[4] \in ImportTypes
                        THEN c[4] ELSE "undefined"]
         ELSE Undefined

compareImports(import1, import2) ==
    IF import1.id # import2.id
    THEN IF StrLess(import1.id, import2.id) THEN -1 ELSE 1
    ELSE IF import1.type # import2.type
         THEN IF import1.type = "undefined" THEN -1
              ELSE IF import2.type = "undefined" THEN 1
              ELSE IF StrLess(import1.type, import2.type) THEN -1 ELSE 1
    ELSE 0

sameSpecifier(s1, s2) ==
    CASE s2.t = "ImportDefaultSpecifier" ->
            s1.t = "ImportDefaultSpecifier" /\ s1.local = s2.local
      [] s2.t = "ImportSpecifier" ->
            s1.t = "ImportSpecifier" /\ s1.local = s2.local /\ s1.imported = s2.imported
      [] OTHER -> FALSE

\* mergeImports comparing named specifiers by their local name only
mergeImports_localNameOnly(i1, i2) ==
    [i1 EXCEPT !.specifiers =
        i1.specifiers \o
        SelectSeq(i2.specifiers,
                  LAMBDA s2 : ~\E k \in 1..Len(i1.specifiers) :
                                  /\ i1.specifiers[k].t = s2.t
                                  /\ s2.t # "ImportNamespaceSpecifier"
                                  /\ i1.specifiers[k].local = s2.local)]

\* merge slave into master
mergeImports(i1, i2) ==
    [i1 EXCEPT !.specifiers =
        i1.specifiers \o
        SelectSeq(i2.specifiers,
                  LAMBDA s2 : ~\E k \in 1..Len(i1.specifiers) :
                                  sameSpecifier(i1.specifiers[k], s2))]

extractPlasmicImports(body) ==
    LET imports == SelectSeq(body, LAMBDA stmt :
                       stmt.t = "ImportDeclaration"
                       /\ tryParsePlasmicImportSpec(stmt) # Undefined)
    IN  [k \in 1..Len(imports) |->
            [id |-> tryParsePlasmicImportSpec(imports[k]).id,
             type |-> tryParsePlasmicImportSpec(imports[k]).type,
             node |-> imports[k]]]

\* Array.prototype.sort with compareImports: a stable sort
RECURSIVE sortImports(_)
insertSorted(sorted, x) ==
    LET after == {k \in 1..Len(sorted) : compareImports(sorted[k], x) > 0}
        pos == IF after = {} THEN Len(sorted) ELSE SetMin(after) - 1
    IN  InsertAt(sorted, pos, x)
sortImports(imports) ==
    IF imports = <<>> THEN <<>>
    ELSE insertSorted(sortImports(SubSeq(imports, 1, Len(imports) - 1)),
                      imports[Len(imports)])

\* the while loop of mergePlasmicImports over the sorted allImports
RECURSIVE mergeAdjacent(_, _)
mergeAdjacent(sorted, i) ==
    IF i > Len(sorted) THEN <<>>
    ELSE IF i + 1 <= Len(sorted) /\ compareImports(sorted[i], sorted[i + 1]) = 0
         THEN <<mergeImports(sorted[i].node, sorted[i + 1].node)>>
              \o mergeAdjacent(sorted, i + 2)
    ELSE <<sorted[i].node>> \o mergeAdjacent(sorted, i + 1)

isPlasmicImport(stmt) ==
    stmt.t = "ImportDeclaration" /\ tryParsePlasmicImportSpec(stmt) # Undefined

\* allImports.forEach(importDecl => (importDecl.node.leadingComments = null))
withoutLeadingComments(imports) ==
    [k \in 1..Len(imports) |-> [imports[k] EXCEPT !.node.leadingComments = Null]]

\* a file body after mergePlasmicImports assigned to the nodes that
\* extractPlasmicImports found in it
bodyAfterMergePlasmicImports(body) ==
    [k \in 1..Len(body) |->
        IF isPlasmicImport(body[k]) THEN [body[k] EXCEPT !.leadingComments = Null]
        ELSE body[k]]

\* the body of the merged file after mergePlasmicImports(mergedFile, parsedNew,
\* parsedEdited); mergedFile is a clone of the edited file
mergePlasmicImports(editedBody, newBody) ==
    LET newImports == extractPlasmicImports(newBody)
        editedImports == extractPlasmicImports(editedBody)
        firstImport == {k \in 1..Len(editedBody) : editedBody[k].t = "ImportDeclaration"}
        firstPlasmicImport == {k \in 1..Len(editedBody) : isPlasmicImport(editedBody[k])}
        kept == SelectSeq(editedBody, LAMBDA stmt : ~isPlasmicImport(stmt))
        allImportsSorted == sortImports(editedImports \o newImports)
        merged == mergeAdjacent(withoutLeadingComments(allImportsSorted), 1)
        insertMergedImportsAt ==
            IF firstPlasmicImport # {} THEN SetMin(firstPlasmicImport) - 1
            ELSE IF firstImport # {} THEN SetMin(firstImport) - 1
            ELSE 0
    IN  SubSeq(kept, 1, insertMergedImportsAt) \o merged
        \o SubSeq(kept, insertMergedImportsAt + 1, Len(kept))

MergeImports ==
    /\ importPc = "start"
    /\ mergedImports' = mergePlasmicImports(allImports.edited, allImports.new)
    /\ importPc' = "done"
    /\ UNCHANGED allImports
    /\ UNCHANGED <<treeVars, cacheVars, filesVars, cliVars, matchVars, childVars>>

MaxImports == 2

NamedSpecifier(local, imported) ==
    [t |-> "ImportSpecifier", local |-> local, imported |-> imported]
DefaultSpecifier(local) == [t |-> "ImportDefaultSpecifier", local |-> local]
NamespaceSpecifier(local) == [t |-> "ImportNamespaceSpecifier", local |-> local]

ImportDecl(specifiers, comments) ==
    [t |-> "ImportDeclaration", specifiers |-> specifiers, source |-> "m",
     leadingComments |-> Undefined, trailingComments |-> comments]

PlasmicComments ==
    {<<<<"plasmic-import:", "a">>>>, <<<<"plasmic-import:", "a", "/", "css">>>>,
     <<<<"plasmic-import:", "a", "/", "component">>>>, <<<<"plasmic-import:", "b">>>>}

ManagedImports ==
    {ImportDecl(sp, c) :
        sp \in {<<NamedSpecifier("X", "X")>>, <<NamedSpecifier("Y", "Y")>>},
        c \in PlasmicComments}

OtherStatements ==
    {ImportDecl(<<DefaultSpecifier("React")>>, <<>>),
     ImportDecl(<<DefaultSpecifier("L")>>, <<<<"eslint-disable-line">>>>),
     [t |-> "Statement", code |-> "f"]}

InitImports ==
    /\ \E e \in SeqsUpTo(ManagedImports \cup OtherStatements, MaxImports),
          n \in SeqsUpTo(ManagedImports, MaxImports) :
          allImports = [edited |-> e, new |-> n]
    /\ mergedImports = <<>>
    /\ importPc = "start"
    /\ IdleTree /\ IdleCache /\ IdleFiles /\ IdleCli /\ IdleMatch /\ IdleChildren

SpecImports == InitImports /\ [][MergeImports]_vars

managedOf(body) == extractPlasmicImports(body)

\* C6 (as claimed): the managed imports of the merged file are sorted under
\* the import order and no two of them have the same (id, type), however many
\* managed imports with that (id, type) the edited and new files hold.
C6_SortedNoDuplicates ==
    importPc = "done" =>
        LET m == managedOf(mergedImports) IN
        /\ \A j, k \in 1..Len(m) : j < k => compareImports(m[j], m[k]) <= 0
        /\ \A j, k \in 1..Len(m) : j # k => compareImports(m[j], m[k]) # 0

MaxSpecifiers == 2

Specifiers ==
    {NamedSpecifier("A", "A"), NamedSpecifier("A", "B"), NamedSpecifier("C", "C"),
     DefaultSpecifier("D"), DefaultSpecifier("A"), NamespaceSpecifier("N")}

\* one managed import a/component in each of the edited and the new file,
\* among other statements and other managed imports
InitImportUnion ==
    /\ \E es \in SeqsUpTo(Specifiers, MaxSpecifiers),
          ns \in SeqsUpTo(Specifiers, MaxSpecifiers),
          before \in {<<>>, <<ImportDecl(<<DefaultSpecifier("React")>>, <<>>)>>,
                      <<ImportDecl(<<NamedSpecifier("X", "X")>>,
                                   <<<<"plasmic-import:", "b">>>>)>>},
          other \in {<<>>, <<ImportDecl(<<NamedSpecifier("X", "X")>>,
                                       <<<<"plasmic-import:", "a", "/", "css">>>>)>>} :
          allImports =
            [edited |-> before
                        \o <<ImportDecl(es, <<<<"plasmic-import:", "a", "/", "component">>>>)>>,
             new |-> other
                     \o <<ImportDecl(ns, <<<<"plasmic-import:", "a", "/", "component">>>>)>>]
    /\ mergedImports = <<>>
    /\ importPc = "start"
    /\ IdleTree /\ IdleCache /\ IdleFiles /\ IdleCli /\ IdleMatch /\ IdleChildren

SpecImportUnion == InitImportUnion /\ [][MergeImports]_vars

withKey(imports, id, type) ==
    SelectSeq(imports, LAMBDA i : i.id = id /\ i.type = type)

\* a specifier of the new declaration that the edited declaration has already
duplicateIn(s, specifiers) ==
    \E k \in 1..Len(specifiers) :
        \/ /\ s.t = "ImportDefaultSpecifier"
           /\ specifiers[k].t = "ImportDefaultSpecifier"
           /\ specifiers[k].local = s.local
        \/ /\ s.t = "ImportSpecifier"
           /\ specifiers[k].t = "ImportSpecifier"
           /\ specifiers[k].local = s.local
           /\ specifiers[k].imported = s.imported

\* C7: with one managed import of the same (id, type) in the edited and in the
\* new file, the merged declaration lists the edited specifiers, then the new
\* specifiers the edited declaration lacks: a default is lacking unless one
\* of the same local name is there, a named one unless one of the same
\* (local, imported) is there, a namespace specifier always.
C7_ImportUnion ==
    importPc = "done" =>
        \A id \in {"a", "b"}, type \in ImportTypes \cup {"undefined"} :
            LET e == withKey(managedOf(allImports.edited), id, type)
                n == withKey(managedOf(allImports.new), id, type)
                m == withKey(managedOf(mergedImports), id, type)
            IN  (Len(e) = 1 /\ Len(n) = 1) =>
                  /\ Len(m) = 1
                  /\ m[1].node.specifiers =
                        e[1].node.specifiers
                        \o SelectSeq(n[1].node.specifiers,
                               LAMBDA s : ~duplicateIn(s, e[1].node.specifiers))

\* import {A} merged with import {B as A, * as N}: both are appended
C7_Witness ==
    /\ importPc = "done"
    /\ \E k \in 1..Len(mergedImports) :
          mergedImports[k].specifiers =
              <<NamedSpecifier("A", "A"), NamespaceSpecifier("N"),
                NamedSpecifier("A", "B"), NamespaceSpecifier("N")>>

-----------------------------------------------------------------------------
(* makeCachedProjectSyncDataProvider                                        *)

MaxProviderCalls == 4

ProjectIds == {"p1", "p2"}
Revisions == {1, 2}

\* cache.find(ent => ent.proejctId === projectId && ent.revision === revision)
cacheFind(entries, p, r) ==
    LET hits == {k \in 1..Len(entries) :
                    entries[k].proejctId = p /\ entries[k].revision = r}
    IN  IF hits = {} THEN Undefined ELSE entries[SetMin(hits)]

\* one call of the provider makeCachedProjectSyncDataProvider returned, made
\* after the earlier calls were answered
cachedProvider(p, r) ==
    /\ Len(answered) < MaxProviderCalls
    /\ LET cached == cacheFind(cache, p, r)
       IN  IF cached # Undefined
           THEN /\ answered' = Append(answered, [projectId |-> p, revision |-> r,
                                                 model |-> cached.model])
                /\ UNCHANGED rawCalls
           ELSE /\ rawCalls' = Append(rawCalls, <<p, r>>)
                /\ answered' = Append(answered, [projectId |-> p, revision |-> r,
                                                 model |-> rawProvider[<<p, r>>]])
    /\ UNCHANGED <<cache, rawProvider>>
    /\ UNCHANGED <<treeVars, importVars, filesVars, cliVars, matchVars, childVars>>

CallCachedProvider == \E p \in ProjectIds, r \in Revisions : cachedProvider(p, r)

-----------------------------------------------------------------------------
(* Component skeleton files                                                 *)

\* A file is [statements, body, region]: the statements that can carry the
\* managed markup, the top-level statements (imports) and the text between
\* plasmic-managed-start and plasmic-managed-end, or Undefined without it.
\* A comment value is a sequence of segments: " ", words and decimal digits.

DigitChars == <<"0", "1", "2", "3", "4", "5", "6", "7", "8", "9">>
isDigit(c) == \E k \in 1..Len(DigitChars) : DigitChars[k] = c
digitValue(c) == (CHOOSE k \in 1..Len(DigitChars) : DigitChars[k] = c) - 1

RECURSIVE trimStart(_)
trimStart(value) ==
    IF value # <<>> /\ value[1] = " " THEN trimStart(Tail(value)) ELSE value
RECURSIVE trimEnd(_)
trimEnd(value) ==
    IF value # <<>> /\ value[Len(value)] = " "
    THEN trimEnd(SubSeq(value, 1, Len(value) - 1)) ELSE value

\* c.value.match(/^\s*plasmic-managed-jsx\/(\d+)\s*$/): the match with its
\* digits, or Undefined
managedJsxMatch(value) ==
    LET core == trimEnd(trimStart(value))
    IN  IF /\ Len(core) >= 2
           /\ core[1] = "plasmic-managed-jsx/"
           /\ \A k \in 2..Len(core) : isDigit(core[k])
        THEN [t |-> "match", digits |-> Tail(core)]
        ELSE Undefined

\* +m[1]
RECURSIVE toNumber(_)
toNumber(digits) ==
    IF digits = <<>> THEN 0
    ELSE 10 * toNumber(SubSeq(digits, 1, Len(digits) - 1)) + digitValue(digits[Len(digits)])

\* `${revision}`
RECURSIVE toDigits(_)
toDigits(n) ==
    IF n < 10 THEN <<DigitChars[n + 1]>>
    ELSE toDigits(n \div 10) \o <<DigitChars[(n % 10) + 1]>>

tryExtractPlasmicJsxExpression(node) ==
    LET hits == {k \in 1..Len(node.leadingComments) :
                    managedJsxMatch(node.leadingComments[k]) # Undefined}
    IN  IF hits = {} THEN Undefined
        ELSE [jsx |-> node.jsx,
              identifyingComment |-> SetMin(hits),
              revision |-> toNumber(managedJsxMatch(node.leadingComments[SetMin(hits)]).digits)]

\* tryParseComponentSkeletonFile visiting every kind of statement
tryParseComponentSkeletonFile_anyStatement(fileContent) ==
    LET hits == {k \in 1..Len(fileContent.statements) :
                    tryExtractPlasmicJsxExpression(fileContent.statements[k]) # Undefined}
    IN  IF hits = {} THEN Undefined
        ELSE LET jsx == tryExtractPlasmicJsxExpression(fileContent.statements[SetMin(hits)])
             IN  [jsx |-> jsx.jsx, revision |-> jsx.revision,
                  identifyingComment |-> <<SetMin(hits), jsx.identifyingComment>>,
                  file |-> fileContent]

\* the traversal stops at the first assignment or return statement that
\* carries the comment
tryParseComponentSkeletonFile(fileContent) ==
    LET hits == {k \in 1..Len(fileContent.statements) :
                    /\ fileContent.statements[k].t \in {"AssignmentExpression", "ReturnStatement"}
                    /\ tryExtractPlasmicJsxExpression(fileContent.statements[k]) # Undefined}
    IN  IF hits = {} THEN Undefined
        ELSE LET jsx == tryExtractPlasmicJsxExpression(fileContent.statements[SetMin(hits)])
             IN  [jsx |-> jsx.jsx, revision |-> jsx.revision,
                  identifyingComment |-> <<SetMin(hits), jsx.identifyingComment>>,
                  file |-> fileContent]

ComponentSkeletonModel(uuid, nameInIdToUuid, fileContent) ==
    [uuid |-> uuid, nameInIdToUuid |-> nameInIdToUuid, fileContent |-> fileContent]

ProjectSyncMetadataModel(components) == [components |-> components]

\* find taking the first component of the metadata, whatever its uuid
findComponent_first(components, componentUuid) ==
    IF components = <<>> THEN Undefined ELSE components[1]

\* projectSyncData.components.find(c => c.uuid === componentUuid)
findComponent(components, componentUuid) ==
    LET hits == {k \in 1..Len(components) : components[k].uuid = componentUuid}
    IN  IF hits = {} THEN Undefined ELSE components[SetMin(hits)]

-----------------------------------------------------------------------------
(* mergeFiles                                                               *)

MaxRuns == 2

\* a Map is the sequence of its [key, value] entries in insertion order
Map(entries) == [t |-> "Map", entries |-> entries]
mapGet(map, key) ==
    LET hits == {k \in 1..Len(map) : map[k].key = key}
    IN  IF hits = {} THEN Undefined ELSE map[SetMin(hits)].value
mapSet(map, key, value) ==
    LET hits == {k \in 1..Len(map) : map[k].key = key}
    IN  IF hits = {} THEN Append(map, [key |-> key, value |-> value])
        ELSE [map EXCEPT ![SetMin(hits)].value = value]
mapKeys(map) == {map[k].key : k \in 1..Len(map)}

\* componentByUuid.forEach: the components whose edited file parses as a
\* component skeleton file
RECURSIVE updateableOf(_)
updateableOf(components) ==
    IF components = <<>> THEN <<>>
    ELSE LET parsedEdited == tryParseComponentSkeletonFile(components[1].value.editedFile)
             rest == updateableOf(Tail(components))
         IN  IF parsedEdited # Undefined
             THEN <<[key |-> components[1].key, value |-> parsedEdited]>> \o rest
             ELSE rest

\* the identifying comment of the merged file
identifyingCommentValue(revision) == <<" ", "plasmic-managed-jsx/">> \o toDigits(revision)

\* parsedEdited.identifyingComment.value = ` plasmic-managed-jsx/${revision}`
withIdentifyingComment(parsed, revision) ==
    [parsed EXCEPT
        !.file.statements[parsed.identifyingComment[1]]
             .leadingComments[parsed.identifyingComment[2]] =
                 identifyingCommentValue(revision)]

\* a parsed file after mergePlasmicImports went over its managed imports
afterMergePlasmicImports(parsed) ==
    [parsed EXCEPT !.file.body = bodyAfterMergePlasmicImports(@)]

\* the loop of mergeFiles after the provider answered, up to the call of
\* serializePlasmicASTNode: the merged markup, or Thrown when an ensure or an
\* assert fails
mergedJsx(componentUuid, parsedEdited, projectSyncData) ==
    LET baseMetadata ==
            IF projectSyncData = Thrown THEN Undefined
            ELSE findComponent(projectSyncData.components, componentUuid)
        parsedBase ==
            IF baseMetadata = Undefined THEN Undefined
            ELSE tryParseComponentSkeletonFile(baseMetadata.fileContent)
        component == mapGet(componentByUuid, componentUuid)
        parsedNew == tryParseComponentSkeletonFile(component.newFile)
    IN  IF parsedBase = Undefined \/ parsedNew = Undefined THEN Thrown
        ELSE LET baseCodeVersion == CodeVersion(parsedBase.jsx, baseMetadata.nameInIdToUuid)
                 editedCodeVersion == CodeVersion(parsedEdited.jsx, baseMetadata.nameInIdToUuid)
                 newCodeVersion == CodeVersion(parsedNew.jsx, component.newNameInIdToUuid)
             IN  IF serializeThrows(newCodeVersion.root, newCodeVersion,
                                    editedCodeVersion, baseCodeVersion)
                 THEN Thrown
                 ELSE serializePlasmicASTNode(newCodeVersion.root, newCodeVersion,
                                              editedCodeVersion, baseCodeVersion)

\* the rest of the loop leaving the identifying comment as the edited file has it
mergeComponent_keepMarker(component, parsedEdited, mergedMarkup) ==
    LET parsedNew == tryParseComponentSkeletonFile(component.newFile)
    IN  [parsedEdited.file EXCEPT
            !.statements[parsedEdited.identifyingComment[1]].jsx = mergedMarkup,
            !.body = mergePlasmicImports(parsedEdited.file.body, parsedNew.file.body),
            !.region = IF @ = Undefined THEN Undefined ELSE component.newFile.region]

\* the rest of the loop, for the merged markup mergedMarkup: the merged file
\* of the component
mergeComponent(component, parsedEdited, mergedMarkup) ==
    LET parsedNew == tryParseComponentSkeletonFile(component.newFile)
        marked == withIdentifyingComment(parsedEdited, parsedNew.revision)
    IN  [marked.file EXCEPT
            !.statements[parsedEdited.identifyingComment[1]].jsx = mergedMarkup,
            !.body = mergePlasmicImports(parsedEdited.file.body, parsedNew.file.body),
            !.region = IF @ = Undefined THEN Undefined ELSE component.newFile.region]

\* mergeFiles iterating with a position that outlives the call
mergeFiles_sharedCursor ==
    /\ filesPc \in {"start", "done", "failed"}
    /\ Len(runs) < MaxRuns
    /\ LET updateableByComponentUuid == updateableOf(componentByUuid)
           from == IF cursor = 0 THEN 1 ELSE cursor
       IN  /\ updateable' = updateableByComponentUuid
           /\ mergedFiles' = <<>>
           /\ newJsx' = <<>>
           /\ parsedInputs' = Undefined
           /\ IF Len(updateableByComponentUuid) = 0
              THEN /\ runs' = Append(runs, Undefined)
                   /\ providerCalls' = <<>>
                   /\ cursor' = 0
                   /\ filesPc' = "done"
              ELSE /\ providerCalls' =
                          <<<<projectId, updateableByComponentUuid[from].value.revision>>>>
                   /\ cursor' = from
                   /\ filesPc' = "await"
                   /\ UNCHANGED runs
    /\ UNCHANGED <<componentByUuid, projectId>>
    /\ UNCHANGED <<newVersion, editedVersion, baseVersion, mergePc>>
    /\ UNCHANGED <<importVars, cacheVars, cliVars, matchVars, childVars>>

\* mergeFiles calling the provider for every updateable component before it
\* awaits the first answer
mergeFiles_allAtOnce ==
    /\ filesPc \in {"start", "done", "failed"}
    /\ Len(runs) < MaxRuns
    /\ LET updateableByComponentUuid == updateableOf(componentByUuid)
       IN  /\ updateable' = updateableByComponentUuid
           /\ mergedFiles' = <<>>
           /\ newJsx' = <<>>
           /\ parsedInputs' = Undefined
           /\ IF Len(updateableByComponentUuid) = 0
              THEN /\ runs' = Append(runs, Undefined)
                   /\ providerCalls' = <<>>
                   /\ cursor' = 0
                   /\ filesPc' = "done"
              ELSE /\ providerCalls' =
                          [k \in 1..Len(updateableByComponentUuid) |->
                              <<projectId, updateableByComponentUuid[k].value.revision>>]
                   /\ cursor' = 1
                   /\ filesPc' = "await"
                   /\ UNCHANGED runs
    /\ UNCHANGED <<componentByUuid, projectId>>
    /\ UNCHANGED <<newVersion, editedVersion, baseVersion, mergePc>>
    /\ UNCHANGED <<importVars, cacheVars, cliVars, matchVars, childVars>>

\* a call of mergeFiles, up to its return or its first provider call
mergeFiles ==
    /\ filesPc \in {"start", "done", "failed"}
    /\ Len(runs) < MaxRuns
    /\ LET updateableByComponentUuid == updateableOf(componentByUuid)
       IN  /\ updateable' = updateableByComponentUuid
           /\ mergedFiles' = <<>>
           /\ newJsx' = <<>>
           /\ parsedInputs' = Undefined
           /\ IF Len(updateableByComponentUuid) = 0
              THEN /\ runs' = Append(runs, Undefined)
                   /\ providerCalls' = <<>>
                   /\ cursor' = 0
                   /\ filesPc' = "done"
              ELSE /\ providerCalls' =
                          <<<<projectId, updateableByComponentUuid[1].value.revision>>>>
                   /\ cursor' = 1
                   /\ filesPc' = "await"
                   /\ UNCHANGED runs
    /\ UNCHANGED <<componentByUuid, projectId>>
    /\ UNCHANGED <<newVersion, editedVersion, baseVersion, mergePc>>
    /\ UNCHANGED <<importVars, cacheVars, cliVars, matchVars, childVars>>

\* the provider answers: mergeFiles merges the component, then returns or
\* calls the provider for the next component; newJsx is the loop's newJsx
mergeFilesResume ==
    /\ filesPc = "await"
    /\ newJsx' = mergedJsx(updateable[cursor].key, updateable[cursor].value,
                           rawProvider[providerCalls[Len(providerCalls)]])
    /\ LET componentUuid == updateable[cursor].key
           parsedEdited == updateable[cursor].value
           component == mapGet(componentByUuid, componentUuid)
           parsedNew == tryParseComponentSkeletonFile(component.newFile)
           projectSyncData == rawProvider[providerCalls[Len(providerCalls)]]
           baseMetadata ==
               IF projectSyncData = Thrown THEN Undefined
               ELSE findComponent(projectSyncData.components, componentUuid)
           parsedBase ==
               IF baseMetadata = Undefined THEN Undefined
               ELSE tryParseComponentSkeletonFile(baseMetadata.fileContent)
       IN  /\ updateable' =
                  IF newJsx' = Thrown THEN updateable
                  ELSE [updateable EXCEPT ![cursor].value =
                           afterMergePlasmicImports(
                               withIdentifyingComment(parsedEdited, parsedNew.revision))]
           /\ parsedInputs' =
                  [componentUuid |-> componentUuid,
                   new |-> IF newJsx' = Thrown THEN parsedNew
                           ELSE afterMergePlasmicImports(parsedNew),
                   base |-> parsedBase]
           /\ IF newJsx' = Thrown \/ component.newFile.region = Undefined
              THEN /\ filesPc' = "failed"
                   /\ runs' = Append(runs, Thrown)
                   /\ UNCHANGED <<mergedFiles, providerCalls, cursor>>
              ELSE /\ mergedFiles' =
                          mapSet(mergedFiles, componentUuid,
                                 mergeComponent(component, parsedEdited, newJsx'))
                   /\ IF cursor < Len(updateable)
                      THEN /\ providerCalls' =
                                  Append(providerCalls,
                                         <<projectId, updateable[cursor + 1].value.revision>>)
                           /\ cursor' = cursor + 1
                           /\ UNCHANGED <<filesPc, runs>>
                      ELSE /\ filesPc' = "done"
                           /\ runs' = Append(runs, Map(mergedFiles'))
                           /\ UNCHANGED <<providerCalls, cursor>>
    /\ UNCHANGED <<componentByUuid, projectId>>
    /\ UNCHANGED <<newVersion, editedVersion, baseVersion, mergePc>>
    /\ UNCHANGED <<importVars, cacheVars, cliVars, matchVars, childVars>>

-----------------------------------------------------------------------------
(* Inputs of mergeFiles and of the cached provider                          *)

MaxComponents == 2

Statement(t, leadingComments, jsx) ==
    [t |-> t, leadingComments |-> leadingComments, jsx |-> jsx]
Region(text) == [t |-> "region", text |-> text]
SkeletonFile(statements, body, region) ==
    [statements |-> statements, body |-> body, region |-> region]

ManagedJsx1 == <<" ", "plasmic-managed-jsx/", "1">>
ManagedJsx2 == <<"plasmic-managed-jsx/", "2", " ">>
ManagedJsx01 == <<" ", "plasmic-managed-jsx/", "0", "1", " ">>
NoRevision == <<" ", "plasmic-managed-jsx/">>
Note == <<"note">>

PlainTree == RootNode(<<clsAttr("R")>>, <<>>, <<>>)
TitledTree == RootNode(<<clsAttr("R"), titleAttr("a")>>, <<TextNode("x")>>, <<>>)
NestedTree ==
    RootNode(<<propsAttr("R", <<>>)>>, <<TagNode("A", <<clsAttr("A")>>, <<>>, <<>>)>>, <<>>)

ImportsA == <<ImportDecl(<<NamedSpecifier("X", "X")>>, <<<<"plasmic-import:", "a">>>>)>>
ImportsB ==
    <<ImportDecl(<<DefaultSpecifier("React")>>, <<>>),
      ImportDecl(<<NamedSpecifier("Y", "Y")>>, <<<<"plasmic-import:", "a">>>>)>>

\* two managed imports on adjacent lines: the parser attaches the comment that
\* ends the first line to the second import as a leading comment too
ImportsC ==
    <<ImportDecl(<<NamedSpecifier("X", "X")>>, <<<<"plasmic-import:", "a">>>>),
      [ImportDecl(<<NamedSpecifier("Y", "Y")>>, <<<<"plasmic-import:", "b">>>>)
          EXCEPT !.leadingComments = Comments(<<<<"plasmic-import:", "a">>>>)]>>

\* edited files: three carry the managed markup, two do not (the comment is
\* on a variable declarator, or has no revision)
EditedFiles ==
    {SkeletonFile(<<Statement("AssignmentExpression", <<ManagedJsx1>>, PlainTree)>>,
                  ImportsA, Region("old")),
     SkeletonFile(<<Statement("ReturnStatement", <<Note, ManagedJsx2>>, TitledTree)>>,
                  <<>>, Undefined),
     SkeletonFile(<<Statement("VariableDeclarator", <<ManagedJsx1>>, PlainTree),
                    Statement("ReturnStatement", <<ManagedJsx01>>, NestedTree)>>,
                  ImportsC, Region("old")),
     SkeletonFile(<<Statement("VariableDeclarator", <<ManagedJsx1>>, PlainTree)>>,
                  ImportsA, Region("old")),
     SkeletonFile(<<Statement("AssignmentExpression", <<NoRevision>>, PlainTree)>>,
                  <<>>, Region("old"))}

\* new files: one lacks the managed region, one the managed markup
NewFiles ==
    {SkeletonFile(<<Statement("AssignmentExpression", <<ManagedJsx2>>, TitledTree)>>,
                  ImportsB, Region("new")),
     SkeletonFile(<<Statement("ReturnStatement", <<ManagedJsx2>>, NestedTree)>>,
                  ImportsC, Region("new")),
     SkeletonFile(<<Statement("AssignmentExpression", <<ManagedJsx2>>, PlainTree)>>,
                  ImportsA, Undefined),
     SkeletonFile(<<Statement("ReturnStatement", <<Note>>, PlainTree)>>, ImportsA, Region("new"))}

BaseFile(tree) ==
    SkeletonFile(<<Statement("AssignmentExpression", <<ManagedJsx1>>, tree)>>, ImportsA, Region("old"))

ComponentUuids == {"c1", "c2"}

ComponentInfoForMerge(editedFile, newFile) ==
    [editedFile |-> editedFile, newFile |-> newFile, newNameInIdToUuid |-> IdMap]

\* the maps from component uuid to ComponentInfoForMerge, of up to
\* MaxComponents components
ComponentMaps ==
    {m \in SeqsUpTo([key : ComponentUuids,
                     value : {ComponentInfoForMerge(e, n) : e \in EditedFiles, n \in NewFiles}],
                    MaxComponents) :
        \A i, j \in 1..Len(m) : i < j => m[i].key # m[j].key}

allComponents(tree) ==
    ProjectSyncMetadataModel(
        <<ComponentSkeletonModel("c1", IdMap, BaseFile(tree)),
          ComponentSkeletonModel("c2", IdMap, BaseFile(tree))>>)

\* the provider answers: every component at every revision; one component
\* per project and nothing at revision 2; a base file without managed markup
\* and a rejected call
Providers ==
    {[k \in ProjectIds \X Revisions |->
         IF k[2] = 1 THEN allComponents(PlainTree) ELSE allComponents(NestedTree)],
     [k \in ProjectIds \X Revisions |->
         IF k[2] = 2 THEN ProjectSyncMetadataModel(<<>>)
         ELSE ProjectSyncMetadataModel(
                  <<ComponentSkeletonModel(IF k[1] = "p1" THEN "c1" ELSE "c2",
                                           IdMap, BaseFile(PlainTree))>>)],
     [k \in ProjectIds \X Revisions |->
         IF k[2] = 2 THEN Thrown
         ELSE ProjectSyncMetadataModel(
                  <<ComponentSkeletonModel(
                        "c1", IdMap,
                        SkeletonFile(<<Statement("ReturnStatement", <<Note>>, PlainTree)>>,
                                     <<>>, Region("old"))),
                    ComponentSkeletonModel("c2", IdMap, BaseFile(PlainTree))>>)]}

InitFiles ==
    /\ componentByUuid \in ComponentMaps
    /\ projectId \in ProjectIds
    /\ rawProvider \in Providers
    /\ updateable = <<>> /\ mergedFiles = <<>> /\ providerCalls = <<>>
    /\ cursor = 0 /\ filesPc = "start" /\ runs = <<>>
    /\ parsedInputs = Undefined
    /\ IdleTree /\ IdleImports /\ IdleCalls /\ IdleCli /\ IdleMatch /\ IdleChildren

FilesNext == mergeFiles \/ mergeFilesResume

SpecFiles == InitFiles /\ [][FilesNext]_vars

InitCache ==
    /\ rawProvider \in Providers
    /\ cache = <<>> /\ rawCalls = <<>> /\ answered = <<>>
    /\ IdleTree /\ IdleImports /\ IdleFiles /\ IdleCli /\ IdleMatch /\ IdleChildren

SpecCache == InitCache /\ [][CallCachedProvider]_vars

-----------------------------------------------------------------------------
(* Properties of mergeFiles and of the cached provider                      *)

\* the result of the latest settled call of mergeFiles
result == runs[Len(runs)]

\* a leading comment plasmic-managed-jsx/<decimal> on an assignment or on a
\* return statement of the file
carriesManagedJsx(file) ==
    \E k \in 1..Len(file.statements) :
        /\ file.statements[k].t \in {"AssignmentExpression", "ReturnStatement"}
        /\ \E c \in 1..Len(file.statements[k].leadingComments) :
              managedJsxMatch(file.statements[k].leadingComments[c]) # Undefined

\* the components of the input whose edited file carries the managed markup
mergeable == SelectSeq(componentByUuid, LAMBDA c : carriesManagedJsx(c.value.editedFile))

C8_RawProviderOncePerKey ==
    \A i, j \in 1..Len(rawCalls) : i < j => rawCalls[i] # rawCalls[j]

\* C9 (as claimed): with no mergeable component, mergeFiles returns a map
\* without entries and calls the provider never.
C9_EmptyMapping ==
    (filesPc = "done" /\ mergeable = <<>>)
        => /\ result = Map(<<>>)
           /\ providerCalls = <<>>

\* C10: when mergeFiles returns with a mergeable component, its map has an
\* entry for exactly the components whose edited file carries the managed
\* markup; the provider is called for these components only, once each in
\* their order with the revision of their edited file; and a failure is the
\* failure of a component that carries the managed markup.
C10_EntriesForMergeable ==
    /\ Len(providerCalls) <= Len(mergeable)
    /\ \A k \in 1..Len(providerCalls) :
          providerCalls[k] =
              <<projectId,
                tryParseComponentSkeletonFile(mergeable[k].value.editedFile).revision>>
    /\ (filesPc = "done" /\ mergeable # <<>>)
          => /\ result.t = "Map"
             /\ [k \in 1..Len(result.entries) |-> result.entries[k].key]
                   = [k \in 1..Len(mergeable) |-> mergeable[k].key]
             /\ Len(providerCalls) = Len(mergeable)
    /\ filesPc = "failed"
          => /\ cursor \in 1..Len(mergeable)
             /\ Len(providerCalls) = cursor

\* two components, the first without the managed markup: one entry
C10_Witness ==
    /\ filesPc = "done"
    /\ Len(componentByUuid) = 2
    /\ ~carriesManagedJsx(componentByUuid[1].value.editedFile)
    /\ result.t = "Map"
    /\ mapKeys(result.entries) = {componentByUuid[2].key}
    /\ Len(providerCalls) = 1

\* a file body with the leading comments of its imports read as the comments
\* they hold: null holds none, as Undefined does
commentsRead(body) ==
    [k \in 1..Len(body) |->
        IF body[k].t = "ImportDeclaration" /\ body[k].leadingComments = Null
        THEN [body[k] EXCEPT !.leadingComments = Undefined]
        ELSE body[k]]

\* the parsed file `after` holds what the parsed file `before` held
sameTree(after, before) ==
    \/ after = before
    \/ /\ after # Undefined /\ before # Undefined
       /\ [after EXCEPT !.file.body = commentsRead(@)]
              = [before EXCEPT !.file.body = commentsRead(@)]

\* a parsed file without the value of its identifying comment
exceptMarker(parsed) ==
    [parsed EXCEPT
        !.file.statements[parsed.identifyingComment[1]]
             .leadingComments[parsed.identifyingComment[2]] = <<>>]

\* the parsed base file of the component componentUuid, as the provider
\* answers for the revision of its edited file
parsedBaseOf(componentUuid) ==
    LET parsedEdited ==
            tryParseComponentSkeletonFile(mapGet(componentByUuid, componentUuid).editedFile)
        projectSyncData == rawProvider[<<projectId, parsedEdited.revision>>]
        baseMetadata ==
            IF projectSyncData = Thrown THEN Undefined
            ELSE findComponent(projectSyncData.components, componentUuid)
    IN  IF baseMetadata = Undefined THEN Undefined
        ELSE tryParseComponentSkeletonFile(baseMetadata.fileContent)

\* C11 (as claimed): after an iteration of mergeFiles the parsed new file and
\* the parsed base file of the component hold what they held when they were
\* parsed, and so does every parsed edited file but for the value of its
\* identifying comment.
C11_InputTreesUnchanged ==
    parsedInputs # Undefined =>
        /\ sameTree(parsedInputs.new,
                    tryParseComponentSkeletonFile(
                        mapGet(componentByUuid, parsedInputs.componentUuid).newFile))
        /\ sameTree(parsedInputs.base, parsedBaseOf(parsedInputs.componentUuid))
        /\ \A k \in 1..Len(updateable) :
              sameTree(exceptMarker(updateable[k].value),
                       exceptMarker(tryParseComponentSkeletonFile(
                           mapGet(componentByUuid, updateable[k].key).editedFile)))

\* the mergeable components for which the provider's answer, for the revision
\* of their edited file, has no component with their uuid
lacksBaseMetadata ==
    {k \in 1..Len(mergeable) :
        LET parsedEdited == tryParseComponentSkeletonFile(mergeable[k].value.editedFile)
            projectSyncData == rawProvider[<<projectId, parsedEdited.revision>>]
        IN  /\ projectSyncData # Thrown
            /\ \A i \in 1..Len(projectSyncData.components) :
                  projectSyncData.components[i].uuid # mergeable[k].key}

\* C12: when the provider's metadata lacks a mergeable component, the call of
\* mergeFiles fails and returns no map, whatever it merged before the failing
\* component.
C12_MissingBaseMetadataFails ==
    (filesPc \in {"done", "failed"} /\ lacksBaseMetadata # {})
        => /\ filesPc = "failed"
           /\ result = Thrown

\* the first component was merged, the metadata lacks the second: the call
\* failed
C12_Witness ==
    /\ filesPc = "failed"
    /\ lacksBaseMetadata = {2}
    /\ Len(mergedFiles) = 1
    /\ mergedFiles[1].key = mergeable[1].key
    /\ result = Thrown

-----------------------------------------------------------------------------
(* Named attributes that the new and the edited node both carry            *)

\* onClick={h}: a handler of the developer's own
onClickDevAttr == jsxAttribute(<<"on", "Click">>, jsxExpressionContainer(Identifier("h")))

TitleValues == {titleAttr("a"), titleAttr("b"), titleAttr("c")}
OnClickValues == {onClickAttr("R"), onClickModAttr("R"), onClickDevAttr}

\* at most one title and at most one onClick, title first
NamedAttrsTitleFirst ==
    {<<>>} \cup {<<a>> : a \in TitleValues \cup OnClickValues}
    \cup {<<a, b>> : a \in TitleValues, b \in OnClickValues}
NamedAttrLists ==
    NamedAttrsTitleFirst \cup {<<b, a>> : a \in TitleValues, b \in OnClickValues}

\* the root with its className identity attribute anywhere among the named
\* attributes
ConflictTrees ==
    {RootNode(InsertAt(lp[1], lp[2], clsAttr("R")), <<>>, <<>>) :
        lp \in {x \in NamedAttrLists \X (0..MaxExtraAttrs) : x[2] <= Len(x[1])}}
ConflictBaseTrees ==
    {RootNode(<<clsAttr("R")>> \o l, <<>>, <<>>) : l \in NamedAttrsTitleFirst}

InitConflict ==
    \E n \in ConflictTrees, e \in ConflictTrees, b \in ConflictBaseTrees :
        InitVersions(n, e, b, IdMap, IdMap)

SpecConflict == InitConflict /\ [][Merge]_vars

attrsNamed(attributes, name) ==
    SelectSeq(attributes, LAMBDA a : a.t = "JSXAttribute" /\ a.name = name)

\* the conflict table, for the values the base, edited and new node give to
\* an attribute that edited and new both carry
conflictTable(name, b, e, n) ==
    IF e = n THEN <<e>>
    ELSE IF b = Undefined THEN <<n, e>>
    ELSE IF b = e THEN <<n>>
    ELSE IF name[1] = "on" \/ b = n THEN <<e>>
    ELSE <<n, e>>

\* C13: for every named attribute other than className that the new and the
\* edited node both carry, the merged attributes of that name are exactly the
\* values of the conflict table, the new value before the edited one when
\* both are emitted, and never none.
C13_ConflictTable ==
    mergePc = "done" =>
        /\ newJsx # Thrown
        /\ \A name \in {<<"title">>, <<"on", "Click">>} :
              LET b == getNamedAttrs(baseVersion.root.attributes, name)
                  e == getNamedAttrs(editedVersion.root.attributes, name)
                  n == getNamedAttrs(newVersion.root.attributes, name)
                  merged == attrsNamed(innerElement(newJsx).attributes, name)
              IN  (e # Undefined /\ n # Undefined)
                     => /\ merged = conflictTable(name, b, e, n)
                        /\ merged # <<>>

\* base title a, edited title b, new title c: c then b
C13_Witness ==
    /\ mergePc = "done"
    /\ getNamedAttrs(baseVersion.root.attributes, <<"title">>) = titleAttr("a")
    /\ getNamedAttrs(editedVersion.root.attributes, <<"title">>) = titleAttr("b")
    /\ getNamedAttrs(newVersion.root.attributes, <<"title">>) = titleAttr("c")
    /\ attrsNamed(innerElement(newJsx).attributes, <<"title">>)
          = <<titleAttr("c"), titleAttr("b")>>

-----------------------------------------------------------------------------
(* The managed identity attribute of a paired node                          *)

\* edited attributes beside the identity attribute: none of them is carried
\* by the new or the base node
ShapeOthers ==
    {o \in SeqsUpTo({titleAttr("a"), devSpread, onKeyAttr("R")}, MaxExtraAttrs) :
        \A i, j \in 1..Len(o) : i < j => o[i] # o[j]}
ShapeEditedIdAttrs ==
    {clsAttr("R"), propsAttr("R", <<>>), propsAttr("R", <<Identifier("x")>>)}
ShapeEditedTrees ==
    {RootNode(InsertAt(op[1], op[2], idAttr), <<>>, <<>>) :
        op \in {x \in ShapeOthers \X (0..MaxExtraAttrs) : x[2] <= Len(x[1])},
        idAttr \in ShapeEditedIdAttrs}
\* the new root keeps its name or is renamed, in either shape, with or
\* without an attribute of its own
ShapeNewAttrs(id) ==
    UNION {{<<idAttr>>, <<titleAttr("b"), idAttr>>, <<idAttr, titleAttr("b")>>} :
              idAttr \in IdAttrs(id)}
ShapeNewTrees ==
    UNION {{[TagNode(id, a, <<>>, <<>>) EXCEPT !.html = FALSE] : a \in ShapeNewAttrs(id)} :
              id \in {"R", "R2"}}
ShapeBaseTrees ==
    {RootNode(<<idAttr>>, <<>>, <<>>) : idAttr \in IdAttrs("R")}

InitShape ==
    \E n \in ShapeNewTrees, e \in ShapeEditedTrees, b \in ShapeBaseTrees :
        InitVersions(n, e, b, IF n.nameInId = "R" THEN IdMap ELSE RenamedMap, IdMap)

SpecShape == InitShape /\ [][Merge]_vars

\* what the merged list carries for the edited identity attribute idAttr
reconciledShape(idAttr, newNode) ==
    IF hasPropsIdSpreador(newNode)
    THEN <<propsAttr(newNode.nameInId,
                     IF idAttr.t = "JSXSpreadAttribute" THEN idAttr.argument.arguments
                     ELSE <<>>)>>
    ELSE <<clsAttr(newNode.nameInId)>>
         \o (IF idAttr.t = "JSXSpreadAttribute" /\ idAttr.argument.arguments # <<>>
             THEN <<idAttr>> ELSE <<>>)

\* the attributes of list are attributes of among, in among's order
inOrderOf(list, among) ==
    /\ \A i \in 1..Len(list) : list[i] \in Range(among)
    /\ SelectSeq(among, LAMBDA a : a \in Range(list)) = list

\* C14: where the edited element carries its managed identity attribute, the
\* merged attributes carry the shape of the new node named with the new
\* nameInId, with the old spread kept directly after a new className exactly
\* when its call has arguments; the edited attributes before it stay before
\* it and those after it stay after it, in their order; only attributes of
\* the new node come before them.
C14_ShapeReconciliation ==
    mergePc = "done" =>
        /\ newJsx # Thrown
        /\ LET edited == editedVersion.root.attributes
               merged == innerElement(newJsx).attributes
               k == CHOOSE i \in 1..Len(edited) :
                        isManagedIdAttr(edited[i], editedVersion.root.nameInId)
               shape == reconciledShape(edited[k], newVersion.root)
               before == SubSeq(edited, 1, k - 1)
               after == SubSeq(edited, k + 1, Len(edited))
           IN  \E i \in 1..Len(merged) :
                   /\ i + Len(shape) - 1 <= Len(merged)
                   /\ SubSeq(merged, i, i + Len(shape) - 1) = shape
                   /\ inOrderOf(SelectSeq(SubSeq(merged, 1, i - 1),
                                          LAMBDA a : a \notin Range(newVersion.root.attributes)),
                                before)
                   /\ inOrderOf(SubSeq(merged, i + Len(shape), Len(merged)), after)
                   /\ Len(merged) - Len(shape) >= Len(edited) - 1

\* a renamed node downgraded from a spread with arguments to className: the
\* old spread follows the new className, between the developer's attributes
C14_Witness ==
    /\ mergePc = "done"
    /\ editedVersion.root.attributes
          = <<devSpread, propsAttr("R", <<Identifier("x")>>), titleAttr("a")>>
    /\ newVersion.root.attributes = <<clsAttr("R2")>>
    /\ innerElement(newJsx).attributes
          = <<devSpread, clsAttr("R2"), propsAttr("R", <<Identifier("x")>>), titleAttr("a")>>

-----------------------------------------------------------------------------
(* The show call of a paired node                                           *)

\* f(x): a call of the developer's around x
devCall(x) == [t |-> "CallExpression", callee |-> Identifier("f"), arguments |-> <<x>>]

\* the conditions around the edited root: none, the show call, a condition
\* of the developer's before or after it or alone, the show call in a call
ShowEditedGuards ==
    {<<>>, <<showGuard("R")>>, <<cond>>, <<cond, showGuard("R")>>,
     <<showGuard("R"), cond>>, <<devCall(showGuard("R"))>>}

ShowEditedTrees ==
    {RootNode(a, c, g) :
        a \in {<<clsAttr("R")>>, <<clsAttr("R"), devSpread>>},
        c \in {<<>>, <<OpaqueNode("f")>>},
        g \in ShowEditedGuards}
ShowNewTrees ==
    UNION {{[TagNode(id, <<clsAttr(id)>>, <<>>, g) EXCEPT !.html = FALSE] :
               g \in {<<>>, <<showGuard(id)>>}} : id \in {"R", "R2"}}
ShowBaseTrees ==
    {RootNode(<<clsAttr("R")>>, <<>>, g) : g \in {<<>>, <<showGuard("R")>>}}

InitShow ==
    \E n \in ShowNewTrees, e \in ShowEditedTrees, b \in ShowBaseTrees :
        InitVersions(n, e, b, IF n.nameInId = "R" THEN IdMap ELSE RenamedMap, IdMap)

SpecShow == InitShow /\ [][Merge]_vars

\* the edited condition g with the show call of R named after id, or read
\* as true
showRenamed(g, id) ==
    IF g = showGuard("R") THEN showGuard(id)
    ELSE IF g = devCall(showGuard("R")) THEN devCall(showGuard(id))
    ELSE g
showTrue(g) ==
    IF g = showGuard("R") THEN [t |-> "BooleanLiteral", value |-> TRUE]
    ELSE IF g = devCall(showGuard("R")) THEN devCall([t |-> "BooleanLiteral", value |-> TRUE])
    ELSE g

\* E: the edited root holds a call rh.showR(); N: the new root has a show call
editedCallsShow ==
    \E i \in 1..Len(editedVersion.root.guards) :
        editedVersion.root.guards[i] \in {showGuard("R"), devCall(showGuard("R"))}
newCallsShow == newVersion.root.guards # <<>>

\* C15: the conditions around the merged element are those of the edited
\* node with the show call renamed after the new node (E and N), with the
\* show call replaced by true (E, not N), followed by the new node's show
\* call directly around the element (not E, N), or unchanged (neither); the
\* element keeps the developer's attributes and children.
C15_VisibilityReconciliation ==
    mergePc = "done" =>
        /\ newJsx # Thrown
        /\ LET guards == editedVersion.root.guards
               newId == newVersion.root.nameInId
           IN  outerGuards(newJsx) =
                   IF editedCallsShow /\ newCallsShow
                   THEN [i \in 1..Len(guards) |-> showRenamed(guards[i], newId)]
                   ELSE IF editedCallsShow
                   THEN [i \in 1..Len(guards) |-> showTrue(guards[i])]
                   ELSE IF newCallsShow
                   THEN guards \o <<showGuard(newId)>>
                   ELSE guards
        /\ innerElement(newJsx).t = "JSXElement"
        /\ devSpread \in Range(innerElement(newJsx).attributes)
              <=> devSpread \in Range(editedVersion.root.attributes)
        /\ innerElement(newJsx).children
              = [i \in 1..Len(editedVersion.root.children) |->
                    rawNode(editedVersion.root.children[i])]

\* the tool added the show call to a node the developer gave an attribute
\* and a child: rh.showR() && <edited>
C15_Witness ==
    /\ mergePc = "done"
    /\ editedVersion.root = RootNode(<<clsAttr("R"), devSpread>>, <<OpaqueNode("f")>>, <<>>)
    /\ newVersion.root = RootNode(<<clsAttr("R")>>, <<>>, <<showGuard("R")>>)
    /\ newJsx = makeJsxElementWithShowCall(rawNode(editedVersion.root), "R")

-----------------------------------------------------------------------------
(* Nodes of the new tree that the edited tree lacks                         *)

GuardedA == TagNode("A", <<clsAttr("A")>>, <<>>, <<showGuard("A")>>)

AbsentNewChildSeqs ==
    {<<>>, <<PlainA>>, <<GuardedA>>, <<TextNode("x"), PlainA>>, <<NodeP(<<>>)>>,
     <<NodeP(<<PlainA>>)>>, <<PlainA, NodeP(<<>>)>>, <<NodeP(<<>>), GuardedA>>}
AbsentEditedChildSeqs ==
    {<<>>, <<TextNode("x")>>, <<OpaqueNode("f")>>, <<PlainA>>, <<NodeP(<<>>)>>,
     <<OpaqueNode("f"), NodeP(<<>>)>>}

\* the developer edited the base: every node of the edited tree is a node of
\* the base tree
InitAbsent ==
    \E n \in AbsentNewChildSeqs, e \in AbsentEditedChildSeqs, b \in BaseChildSeqs :
        /\ namesOf(CodeVersion(RootNode(<<clsAttr("R")>>, e, <<>>), IdMap))
              \subseteq namesOf(CodeVersion(RootNode(<<clsAttr("R")>>, b, <<>>), IdMap))
        /\ InitVersions(RootNode(<<clsAttr("R")>>, n, <<>>),
                        RootNode(<<clsAttr("R")>>, e, <<>>),
                        RootNode(<<clsAttr("R")>>, b, <<>>), IdMap, IdMap)

SpecAbsent == InitAbsent /\ [][Merge]_vars

\* the tag-or-component nodes of the new tree without a counterpart in the
\* edited tree
absentInEdited ==
    {x \in tagOrComponents(newVersion.root) :
        findNode(editedVersion, getId(newVersion, x)) = Undefined}

\* C16 (as claimed): of a node of the new tree that the edited tree lacks,
\* the merged markup holds nothing when the base tree has the node, and holds
\* the new raw node as it is when the base tree lacks it too.
C16_AbsentInEdited ==
    mergePc = "done" =>
        /\ newJsx # Thrown
        /\ \A x \in absentInEdited :
              IF findNode(baseVersion, getId(newVersion, x)) # Undefined
              THEN elementsOf(newJsx, x.nameInId) = {}
              ELSE rawNode(x) \in subtrees(newJsx)

-----------------------------------------------------------------------------
(* Text children of the edited node                                         *)

TextAlphabet ==
    {TextNode("hello"), TextNode("hello world"), StringLitNode("z"), OpaqueNode("f")}

InitText ==
    \E n \in SeqsUpTo(TextAlphabet, MaxSmallChildren),
       e \in SeqsUpTo(TextAlphabet, MaxSmallChildren),
       b \in SeqsUpTo(TextAlphabet, 1) :
        InitVersions(RootNode(<<clsAttr("R")>>, n, <<>>),
                     RootNode(<<clsAttr("R")>>, e, <<>>),
                     RootNode(<<clsAttr("R")>>, b, <<>>), IdMap, IdMap)

SpecText == InitText /\ [][Merge]_vars

\* a text or string-literal child of node has the value of c
hasText(node, c) ==
    \E i \in 1..Len(node.children) :
        isTextual(node.children[i]) /\ node.children[i].value = c.value

\* C17: a text or string-literal child of the edited node whose text the new
\* node lacks is not among the merged children when the base node has the
\* text, and is among them when the base node lacks it too.
C17_TextDeletedByTool ==
    mergePc = "done" =>
        /\ newJsx # Thrown
        /\ \A i \in 1..Len(editedVersion.root.children) :
              LET c == editedVersion.root.children[i] IN
              (isTextual(c) /\ ~hasText(newVersion.root, c))
                 => (rawNode(c) \in Range(newJsx.children)
                        <=> ~hasText(baseVersion.root, c))

\* base = edited = <p>hello world</p>, new = <p>hello</p>: new's children
C17_Witness ==
    /\ mergePc = "done"
    /\ baseVersion.root.children = <<TextNode("hello world")>>
    /\ editedVersion.root.children = <<TextNode("hello world")>>
    /\ newVersion.root.children = <<TextNode("hello")>>
    /\ newJsx.children = <<rawNode(TextNode("hello"))>>

-----------------------------------------------------------------------------
(* plasmic-cli: syncProjects                                                *)
(* plasmic.json is the list of its ComponentConfigs [id, name, projectId].  *)
(* A run of syncProjects is [pc, config, projectIds, components, synced]:   *)
(* config is context.config.components, synced the (projectId, id) of the   *)
(* bundles it wrote. The component files are where plasmic.json says: no    *)
(* path is fixed up.                                                        *)

MaxSyncs == 2

ComponentConfig(id, name, pid) == [id |-> id, name |-> name, projectId |-> pid]
ComponentBundle(id, componentName) == [id |-> id, componentName |-> componentName]

includes(list, x) == \E i \in 1..Len(list) : list[i] = x

shouldSyncComponents(components, o, id, name) ==
    \/ Len(components) = 0
    \/ Len(o.components) = 0 /\ o.includeNew
    \/ includes(components, id)
    \/ includes(components, name)

\* the body of the loop over the bundles of a project; st = [config, synced,
\* written]
syncBundle(st, components, o, pid, bundle) ==
    IF ~shouldSyncComponents(components, o, bundle.id, bundle.componentName) THEN st
    ELSE IF ~\E i \in 1..Len(st.config) : st.config[i].id = bundle.id
    THEN [config |-> Append(st.config,
                            ComponentConfig(bundle.id, bundle.componentName, pid)),
          synced |-> Append(st.synced, <<pid, bundle.id>>),
          written |-> st.written
                      \o <<[id |-> bundle.id, file |-> "renderModule", force |-> FALSE],
                           [id |-> bundle.id, file |-> "css", force |-> FALSE],
                           [id |-> bundle.id, file |-> "skeletonModule", force |-> FALSE]>>]
    ELSE [config |-> st.config,
          synced |-> Append(st.synced, <<pid, bundle.id>>),
          written |-> st.written
                      \o <<[id |-> bundle.id, file |-> "renderModule", force |-> TRUE],
                           [id |-> bundle.id, file |-> "css", force |-> TRUE]>>]

RECURSIVE syncBundles(_, _, _, _, _)
syncBundles(st, components, o, pid, bundles) ==
    IF bundles = <<>> THEN st
    ELSE syncBundles(syncBundle(st, components, o, pid, Head(bundles)),
                     components, o, pid, Tail(bundles))

\* for (const [projectId, bundles] of L.zip(projectIds, results))
RECURSIVE syncResults(_, _, _, _)
syncResults(st, components, o, projectIds) ==
    IF projectIds = <<>> THEN st
    ELSE syncResults(syncBundles(st, components, o, Head(projectIds), api[Head(projectIds)]),
                     components, o, Tail(projectIds))

exited == \E k \in 1..Len(syncs) : syncs[k].pc = "exit"

\* syncProjects up to its await of the api, or to process.exit(1)
syncProjects ==
    /\ opts # Undefined
    /\ ~exited
    /\ Len(syncs) < MaxSyncs
    /\ LET config == configFile
           projectIds ==
               IF Len(opts.projects) > 0 THEN opts.projects
               ELSE [i \in 1..Len(config) |-> config[i].projectId]
           components ==
               IF Len(opts.components) > 0 THEN opts.components
               ELSE [i \in 1..Len(config) |-> config[i].id]
       IN  syncs' = Append(syncs,
                           [pc |-> IF Len(projectIds) = 0 THEN "exit" ELSE "await",
                            config |-> config, projectIds |-> projectIds,
                            components |-> components, synced |-> <<>>])
    /\ UNCHANGED <<configFile, opts, api, written, watching>>
    /\ UNCHANGED <<treeVars, importVars, cacheVars, filesVars, matchVars, childVars>>

\* the api answered run k: the loop over the bundles, then updateConfig
syncProjectsResume(k) ==
    /\ k <= Len(syncs)
    /\ syncs[k].pc = "await"
    /\ ~exited
    /\ LET st == syncResults([config |-> syncs[k].config, synced |-> <<>>, written |-> <<>>],
                             syncs[k].components, opts, syncs[k].projectIds)
       IN  /\ syncs' = [syncs EXCEPT ![k].pc = "done", ![k].config = st.config,
                                     ![k].synced = st.synced]
           /\ configFile' = st.config
           /\ written' = written \o st.written
    /\ UNCHANGED <<opts, api, watching>>
    /\ UNCHANGED <<treeVars, importVars, cacheVars, filesVars, matchVars, childVars>>

SyncNext == syncProjects \/ \E k \in 1..MaxSyncs : syncProjectsResume(k)

\* the components of the projects: p1 has A and B, p2 has C
ProjectComponents ==
    [p \in ProjectIds |->
        IF p = "p1" THEN <<ComponentBundle("a1", "A"), ComponentBundle("a2", "B")>>
        ELSE <<ComponentBundle("b1", "C")>>]

ConfigFiles ==
    {<<>>, <<ComponentConfig("a1", "A", "p1")>>,
     <<ComponentConfig("a1", "A", "p1"), ComponentConfig("a2", "B", "p1")>>,
     <<ComponentConfig("b1", "C", "p2")>>,
     <<ComponentConfig("a1", "A", "p1"), ComponentConfig("b1", "C", "p2")>>}

SyncArgs ==
    [projects : {<<>>, <<"p1">>, <<"p2">>, <<"p1", "p2">>},
     components : {<<>>, <<"a1">>, <<"B">>},
     includeNew : BOOLEAN]

InitSync ==
    /\ configFile \in ConfigFiles
    /\ opts \in SyncArgs
    /\ api = ProjectComponents
    /\ syncs = <<>>
    /\ written = <<>>
    /\ watching = "idle"
    /\ IdleTree /\ IdleImports /\ IdleCache /\ IdleFiles /\ IdleMatch /\ IdleChildren

SpecSync == InitSync /\ [][SyncNext]_vars

\* C18 (as claimed): without --components and --include-new, a run of
\* syncProjects syncs, of the projects it fetches, the components that
\* plasmic.json lists, and every component of a project given by --projects
\* of which plasmic.json lists no component.
C18_DefaultComponentSelection ==
    \A k \in 1..Len(syncs) :
        (syncs[k].pc = "done" /\ opts.components = <<>> /\ ~opts.includeNew)
            => LET known == Range(syncs[k].components)
                   isNew(p) == /\ includes(opts.projects, p)
                               /\ \A i \in 1..Len(api[p]) : api[p][i].id \notin known
               IN  Range(syncs[k].synced) =
                       UNION {{<<p, api[p][i].id>> :
                                  i \in {j \in 1..Len(api[p]) :
                                            api[p][j].id \in known \/ isNew(p)}} :
                              p \in Range(syncs[k].projectIds)}


-----------------------------------------------------------------------------
(* findMatch on its own: the identity matcher applied to a sibling list     *)

MaxMatchNodes == 3

ArgNode(argName) == [type |-> "arg", argName |-> argName, jsxNodes |-> <<>>]
CondStrCallNode ==
    [type |-> "cond-str-call",
     rawNode |-> jsxExpressionContainer(makeCallExpression(helperObject, <<"childStr", "A">>))]

\* the version of the candidate nodes names the node of uuid u1 "A2"
MatchNodesMap == [n \in {"A2", "P"} |-> IF n = "A2" THEN "u1" ELSE "u2"]

MatchNodes ==
    {TextNode("a"), TextNode("b"), StringLitNode("a"), StringLitNode("b"),
     OpaqueNode("x"), ArgNode("children"), CondStrCallNode,
     TagNode("A2", <<>>, <<>>, <<>>), TagNode("P", <<>>, <<>>, <<>>)}

MatchProbes ==
    {TextNode("a"), StringLitNode("a"), ArgNode("children"), ArgNode("slot"),
     CondStrCallNode, TagNode("A", <<>>, <<>>, <<>>), TagNode("P", <<>>, <<>>, <<>>),
     TagNode("R", <<>>, <<>>, <<>>)}

FindMatch ==
    /\ matchArgs # Undefined
    /\ matchResult = Undefined
    /\ matchResult' = findMatch(matchArgs.nodes, matchArgs.start,
                                CodeVersion(Undefined, MatchNodesMap),
                                CodeVersion(Undefined, IdMap), matchArgs.n)
    /\ UNCHANGED matchArgs
    /\ UNCHANGED <<treeVars, importVars, cacheVars, filesVars, cliVars, childVars>>

InitMatch ==
    /\ \E nodes \in SeqsUpTo(MatchNodes, MaxMatchNodes), n \in MatchProbes :
           \E start \in 0..Len(nodes) :
               matchArgs = [nodes |-> nodes, start |-> start, n |-> n]
    /\ matchResult = Undefined
    /\ IdleTree /\ IdleImports /\ IdleCache /\ IdleFiles /\ IdleCli /\ IdleChildren

SpecMatch == InitMatch /\ [][FindMatch]_vars

\* the 0-based indexes at or after start of the nodes of n's own variant
sameVariantAt(nodes, start, n) ==
    {i \in start..(Len(nodes) - 1) : nodes[i + 1].type = n.type}

\* what a matcher that tells the variants apart returns, given the indexes of
\* its perfect matches
variantMatch(perfectAt, sameAt) ==
    IF perfectAt # {} THEN [type |-> "perfect", index |-> SetMin(perfectAt)]
    ELSE IF sameAt # {} THEN [type |-> "type", index |-> SetMin(sameAt)]
    ELSE [type |-> "none", index |-> -1]

\* C19 (as claimed): for a text or string-lit probe findMatch returns
\* 'perfect' at the first index at or after start whose node has the probe's
\* own variant and value (a text probe does not match a string-lit of equal
\* value perfectly, nor the reverse), else 'type' at the first index holding
\* a node of the probe's variant, else 'none'.
C19_TextualMatch ==
    (matchResult # Undefined /\ isTextual(matchArgs.n))
        => LET sameAt == sameVariantAt(matchArgs.nodes, matchArgs.start, matchArgs.n)
               perfectAt == {i \in sameAt : matchArgs.nodes[i + 1].value = matchArgs.n.value}
           IN  matchResult = variantMatch(perfectAt, sameAt)

\* C20 (as claimed): for a tag-or-component or cond-str-call probe without a
\* perfect match findMatch returns 'type' with the first index at or after
\* start of a node of the probe's variant, and 'none' when there is no such
\* node; a text, opaque or arg node is never the type match.
C20_TypeMatchSameVariant ==
    (/\ matchResult # Undefined
     /\ matchArgs.n.type \in {"tag-or-component", "cond-str-call"}
     /\ matchResult.type # "perfect")
        => matchResult = variantMatch({}, sameVariantAt(matchArgs.nodes, matchArgs.start,
                                                        matchArgs.n))

-----------------------------------------------------------------------------
(* mergedChildren call by call: one step per editedChildren.forEach call    *)

\* the callback of editedChildren.forEach for the child at index editedIdx
forEachEditedChild ==
    /\ mergePc = "children"
    /\ editedIdx < Len(editedVersion.root.children)
    /\ LET st == mergeEditedChild(
                     [merged |-> mergedArray, nextInsertStartAt |-> nextInsertStartAt],
                     editedVersion.root.children, editedIdx + 1, baseVersion.root,
                     newVersion, editedVersion, baseVersion)
       IN  /\ mergedArray' = st.merged
           /\ nextInsertStartAt' = st.nextInsertStartAt
    /\ editedIdx' = editedIdx + 1
    /\ UNCHANGED <<treeVars, importVars, cacheVars, filesVars, cliVars, matchVars>>

NewChildAlphabet ==
    {TagNode("A", <<clsAttr("A")>>, <<>>, <<>>), TextNode("a"), OpaqueNode("x")}
EditedChildAlphabet ==
    {TagNode("A", <<clsAttr("A")>>, <<>>, <<>>), TextNode("a"), TextNode("b"),
     OpaqueNode("x"), OpaqueNode("y")}
StepBaseChildSeqs == {<<>>, <<TextNode("b")>>, <<TagNode("A", <<clsAttr("A")>>, <<>>, <<>>)>>}

\* the state at the entry of editedChildren.forEach: merged is a copy of the
\* new node's children and the cursor is 0
InitChildren ==
    /\ \E n \in SeqsUpTo(NewChildAlphabet, MaxSmallChildren),
          e \in SeqsUpTo(EditedChildAlphabet, MaxChildren),
          b \in StepBaseChildSeqs :
           /\ newVersion = CodeVersion(RootNode(<<clsAttr("R")>>, n, <<>>), IdMap)
           /\ editedVersion = CodeVersion(RootNode(<<clsAttr("R")>>, e, <<>>), IdMap)
           /\ baseVersion = CodeVersion(RootNode(<<clsAttr("R")>>, b, <<>>), IdMap)
           /\ mergedArray = [i \in 1..Len(n) |-> [src |-> "new", node |-> n[i]]]
    /\ newJsx = <<>>
    /\ mergePc = "children"
    /\ nextInsertStartAt = 0
    /\ editedIdx = 0
    /\ IdleImports /\ IdleCache /\ IdleFiles /\ IdleCli /\ IdleMatch

SpecChildren == InitChildren /\ [][forEachEditedChild]_vars

\* C21: every forEach call on an opaque edited child inserts it once, whatever
\* new and base hold: at the front when it is the first edited child; else
\* directly after the match (perfect or type) of its predecessor in merged at
\* or after the cursor; else, the predecessor having no match, at the cursor.
\* The cursor then stands directly after the inserted child.
C21_OpaqueAnchoredInsertion ==
    [][(/\ mergePc = "children"
        /\ editedIdx' = editedIdx + 1
        /\ editedVersion.root.children[editedIdx + 1].type = "opaque")
          => LET E == editedVersion.root.children
                 child == [src |-> "edited", node |-> E[editedIdx + 1]]
                 prevMatch == findMatch(nodesOf(mergedArray), nextInsertStartAt,
                                        newVersion, editedVersion, E[editedIdx])
                 at == IF editedIdx = 0 THEN 0
                       ELSE IF prevMatch.type \in {"perfect", "type"}
                            THEN prevMatch.index + 1
                       ELSE nextInsertStartAt
             IN  /\ Len(mergedArray') = Len(mergedArray) + 1
                 /\ \A k \in 1..Len(mergedArray') :
                        mergedArray'[k] = IF k <= at THEN mergedArray[k]
                                          ELSE IF k = at + 1 THEN child
                                          ELSE mergedArray[k - 1]
                 /\ nextInsertStartAt' = at + 1]_vars

\* an opaque second edited child was inserted directly after the new child that
\* matches its predecessor, a tag, behind the cursor's start
C21_Witness ==
    /\ mergePc = "children"
    /\ editedIdx = 2
    /\ editedVersion.root.children[1].type = "tag-or-component"
    /\ editedVersion.root.children[2].type = "opaque"
    /\ Len(mergedArray) = 3
    /\ mergedArray[1].src = "new" /\ mergedArray[1].node.type = "text"
    /\ mergedArray[2].src = "new" /\ mergedArray[2].node.type = "tag-or-component"
    /\ mergedArray[3] = [src |-> "edited", node |-> editedVersion.root.children[2]]
    /\ nextInsertStartAt = 3


\* the nodes of the entries of merged that come from the list src
nodesFrom(src) ==
    nodesOf(SelectSeq(mergedArray, LAMBDA c : c.src = src))

\* s can be had from t by leaving elements out
RECURSIVE isSubsequence(_, _)
isSubsequence(s, t) ==
    IF s = <<>> THEN TRUE
    ELSE IF t = <<>> THEN FALSE
    ELSE IF Head(s) = Head(t) THEN isSubsequence(Tail(s), Tail(t))
    ELSE isSubsequence(s, Tail(t))

\* C26: while mergedChildren builds merged, the children of the new node are
\* in it once each and in new's order, the children inserted from edited are
\* in edited's order, and the cursor never exceeds the length of merged and
\* never decreases.
C26_MergedListOrder ==
    /\ [](mergePc = "children"
            => /\ nodesFrom("new") = newVersion.root.children
               /\ isSubsequence(nodesFrom("edited"),
                                SubSeq(editedVersion.root.children, 1, editedIdx))
               /\ nextInsertStartAt <= Len(mergedArray))
    /\ [][nextInsertStartAt' >= nextInsertStartAt]_vars

\* two edited children were inserted between and after two new children
C26_Witness ==
    /\ mergePc = "children"
    /\ editedIdx = 3
    /\ Len(mergedArray) = 4
    /\ mergedArray[1].src = "new" /\ mergedArray[2].src = "edited"
    /\ mergedArray[3].src = "new" /\ mergedArray[4].src = "edited"
    /\ mergedArray[2].node # mergedArray[4].node
    /\ nextInsertStartAt = 4


-----------------------------------------------------------------------------
(* Attributes deleted by one side                                           *)

\* C22: a named attribute other than className that the base node carries and
\* the edited node or the new node lacks is not among the merged attributes,
\* also when the side that kept it changed its value.
C22_DeletionWins ==
    mergePc = "done" =>
        /\ newJsx # Thrown
        /\ \A name \in {<<"title">>, <<"on", "Click">>} :
              LET b == getNamedAttrs(baseVersion.root.attributes, name)
                  e == getNamedAttrs(editedVersion.root.attributes, name)
                  n == getNamedAttrs(newVersion.root.attributes, name)
              IN  (b # Undefined /\ (e = Undefined \/ n = Undefined))
                     => attrsNamed(innerElement(newJsx).attributes, name) = <<>>

\* the developer deleted title while the tool changed it, the tool deleted
\* onClick while the developer changed it: the merged node has neither
C22_Witness ==
    /\ mergePc = "done"
    /\ getNamedAttrs(baseVersion.root.attributes, <<"title">>) = titleAttr("a")
    /\ getNamedAttrs(editedVersion.root.attributes, <<"title">>) = Undefined
    /\ getNamedAttrs(newVersion.root.attributes, <<"title">>) = titleAttr("c")
    /\ getNamedAttrs(baseVersion.root.attributes, <<"on", "Click">>) = onClickAttr("R")
    /\ getNamedAttrs(editedVersion.root.attributes, <<"on", "Click">>) = onClickDevAttr
    /\ getNamedAttrs(newVersion.root.attributes, <<"on", "Click">>) = Undefined
    /\ innerElement(newJsx).attributes = <<clsAttr("R")>>


-----------------------------------------------------------------------------
(* Event handlers of a renamed node                                         *)

\* C23 (as claimed): when the edited nameInId x of a node differs from its new
\* nameInId, no on* attribute of the merged node refers to rh.on<x><Rest>, for
\* any Rest: the reference is rewritten in the attributes new carries too and
\* in the attributes only the developer has.
C23_OnHandlersRenamed ==
    (mergePc = "done" /\ rootRenamed /\ newJsx \notin {Thrown, Undefined})
        => \A a \in Range(innerElement(newJsx).attributes) :
              (a.t = "JSXAttribute" /\ startsWithOn(a.name))
                 => \A ref \in helperRefs(a) :
                       ~(Len(ref) >= 2 /\ ref[1] = "on"
                            /\ ref[2] = editedVersion.root.nameInId)


-----------------------------------------------------------------------------
(* The order of work inside one call of mergeFiles                          *)

\* C24: inside a call of mergeFiles the provider calls issued exceed the
\* components settled (merged text recorded, or failed) by one exactly while
\* the call is suspended at the provider and by none otherwise; the merged
\* texts recorded are those of the first components in their order; and the
\* k-th call carries the given projectId and the revision of the k-th
\* mergeable component's edited-file marker.
C24_SequentialProviderCalls ==
    filesPc \in {"await", "done", "failed"}
        => /\ Len(providerCalls) - (Len(mergedFiles) + IF filesPc = "failed" THEN 1 ELSE 0)
                 = IF filesPc = "await" THEN 1 ELSE 0
           /\ Len(providerCalls) <= Len(mergeable)
           /\ \A k \in 1..Len(mergedFiles) : mergedFiles[k].key = mergeable[k].key
           /\ \A k \in 1..Len(providerCalls) :
                 providerCalls[k] =
                     <<projectId,
                       tryParseComponentSkeletonFile(mergeable[k].value.editedFile).revision>>

\* suspended at the second provider call, made with another revision than the
\* first, the first component's merged text being recorded
C24_Witness ==
    /\ filesPc = "await"
    /\ Len(providerCalls) = 2
    /\ providerCalls[1][2] # providerCalls[2][2]
    /\ Len(mergedFiles) = 1
    /\ mergedFiles[1].key = mergeable[1].key


-----------------------------------------------------------------------------
(* The revision marker of a merged file                                     *)

\* C25: the merged file of every merged component parses as a component
\* skeleton file whose identifying comment is plasmic-managed-jsx/<rev> with
\* rev the revision of the component's new file, not of its edited file: a
\* later merge of it asks the provider for that revision.
C25_MergedFileCarriesNewRevision ==
    \A k \in 1..Len(mergedFiles) :
        LET component == mapGet(componentByUuid, mergedFiles[k].key)
            parsedNew == tryParseComponentSkeletonFile(component.newFile)
            reparsed == tryParseComponentSkeletonFile(mergedFiles[k].value)
        IN  /\ reparsed # Undefined
            /\ reparsed.revision = parsedNew.revision
            /\ mergedFiles[k].value.statements[reparsed.identifyingComment[1]]
                  .leadingComments[reparsed.identifyingComment[2]]
                  = identifyingCommentValue(parsedNew.revision)

\* a component edited at revision 1 was merged with its new file of revision 2
C25_Witness ==
    /\ Len(mergedFiles) >= 1
    /\ tryParseComponentSkeletonFile(
           mapGet(componentByUuid, mergedFiles[1].key).editedFile).revision = 1
    /\ tryParseComponentSkeletonFile(
           mapGet(componentByUuid, mergedFiles[1].key).newFile).revision = 2
    /\ tryParseComponentSkeletonFile(mergedFiles[1].value).revision = 2


-----------------------------------------------------------------------------
(* A node that the edited version holds and the base version lacks          *)

\* child lists with the nodes A and P side by side or nested
OrphanChildSeqs == BaseChildSeqs \cup {<<PlainA, NodeP(<<>>)>>, <<GuardedA>>}

InitOrphan ==
    \E n \in OrphanChildSeqs, e \in OrphanChildSeqs, b \in OrphanChildSeqs :
        InitVersions(RootNode(<<clsAttr("R")>>, n, <<>>),
                     RootNode(<<clsAttr("R")>>, e, <<>>),
                     RootNode(<<clsAttr("R")>>, b, <<>>), IdMap, IdMap)

SpecOrphan == InitOrphan /\ [][Merge]_vars

\* the nodes of the new tree with a node of their id in the edited version
\* and none in the base version
orphans ==
    {x \in tagOrComponents(newVersion.root) :
        /\ findNode(editedVersion, getId(newVersion, x)) # Undefined
        /\ findNode(baseVersion, getId(newVersion, x)) = Undefined}

\* the nodes of the new tree above x
properAncestors(x) ==
    {y \in tagOrComponents(newVersion.root) : x \in tagOrComponents(y) \ {y}}

-----------------------------------------------------------------------------
(* plasmic-cli: watchProjects                                               *)

\* watchProjects up to its await: the projects to subscribe to, or
\* process.exit(1)
watchProjects ==
    /\ watching = "start"
    /\ LET config == configFile
           projectIds ==
               IF Len(opts.projects) > 0 THEN opts.projects
               ELSE [i \in 1..Len(config) |-> config[i].projectId]
       IN  watching' = IF Len(projectIds) = 0 THEN "exit" ELSE "subscribed"
    /\ UNCHANGED <<configFile, opts, api, syncs, written>>
    /\ UNCHANGED <<treeVars, importVars, cacheVars, filesVars, matchVars, childVars>>

\* socket.on("update", ...): the handler calls syncProjects(opts) and returns
\* when that call reaches its await
onUpdate ==
    /\ watching = "subscribed"
    /\ syncProjects

WatchNext == watchProjects \/ onUpdate \/ \E k \in 1..MaxSyncs : syncProjectsResume(k)

InitWatch ==
    /\ configFile \in ConfigFiles
    /\ opts \in SyncArgs
    /\ api = ProjectComponents
    /\ syncs = <<>>
    /\ written = <<>>
    /\ watching = "start"
    /\ IdleTree /\ IdleImports /\ IdleCache /\ IdleFiles /\ IdleMatch /\ IdleChildren

SpecWatch == InitWatch /\ [][WatchNext]_vars

\* C28 (as claimed): in watch mode at most one run of syncProjects is in
\* progress: the run an 'update' event started has written plasmic.json
\* before the run of the next 'update' event starts.
C28_OneSyncAtATime ==
    watching = "subscribed"
        => \A j, k \in 1..Len(syncs) :
              (syncs[j].pc = "await" /\ syncs[k].pc = "await") => j = k

====
